---------------------------- MODULE Spec2Model ----------------------------
(***************************************************************************)
(* Plugin lifecycle manager and RPC transport of AppFlowy-LocalAI.         *)
(*                                                                         *)
(* PluginManager (manager.rs) owns a registry of plugins behind one mutex  *)
(* and an id counter.  create_plugin starts a worker thread per plugin     *)
(* (start_plugin_process, plugin.rs) which spawns the process, registers   *)
(* the Plugin, broadcasts RunningState values on the watch channel it was  *)
(* given and runs the transport loop.  Callers issue blocking, async and   *)
(* streaming requests through the Plugin.                                  *)
(*                                                                         *)
(* The transport loop and the RPC peer (core/rpc_loop.rs, core/rpc_peer.rs)*)
(* are not part of the sources at hand; the definitions that model them    *)
(* follow the design document.                                             *)
(***************************************************************************)
EXTENDS Integers, Sequences, FiniteSets, TLC

(* ---------------------------- bounds ----------------------------------- *)
MaxPlugins == 2        \* ids create_plugin allocates in the lifecycle runs
MaxStarted == 1        \* plugins started in the allocation and registry runs
MaxCalls == 2          \* requests callers issue to one plugin ("shutdown" not counted)
MaxStreams == 1        \* streaming requests among them
MaxChunks == 101       \* chunks a plugin process emits for one streaming call
MaxDropChunks == 2     \* ... in the runs whose consumers drop the stream
MaxItems == 2          \* elements of the "data" array of a response
MaxParts == 2          \* chunks of the body of a download

PluginIds == 0 .. (MaxPlugins - 1)

NoId == -1

\* capacity of the channel of a streaming call: `mpsc::channel(100)`
StreamCapacity == 100

(* ------------------------- RunningState -------------------------------- *)
Connecting == [st |-> "Connecting", id |-> NoId]
Connected(p) == [st |-> "Connected", id |-> p]
Running(p) == [st |-> "Running", id |-> p]
Stopped(p) == [st |-> "Stopped", id |-> p]
UnexpectedStop(p) == [st |-> "UnexpectedStop", id |-> p]

plugin_id(s) == s.id

is_loading(s) == s.st \in {"Connecting", "Connected"}

(* ------------------------- OperatingSystem ----------------------------- *)
is_desktop(o) == o \in {"Windows", "Linux", "MacOS"}

\* a platform check that lets every host through
is_not_desktop_never(o) == FALSE

is_not_desktop(o) == ~is_desktop(o)

\* get_operating_system() of the hosts the model is run on: a desktop and a
\* non-desktop system
Hosts == {"Linux", "Android"}

(* ---------------------------- state ------------------------------------ *)
VARIABLES
  os,          \* PluginManager.operating_system
  counter,     \* PluginManager.plugin_id_counter
  plugins,     \* PluginState.plugins: sequence of registered plugin ids
  lock,        \* holder of the registry mutex, or Free
  rs,          \* current value of the watch channel the client hands to
               \* every create_plugin call (LocalChatLLMChat.running_state)
  tpc,         \* position of the worker thread of each plugin id
  notified,    \* the worker's oneshot `tx.send(())` has happened
  sent,        \* history: the values the worker of each id has broadcast
  proc,        \* the plugin process: "none", "alive", "exited"
  methods,     \* history: methods written to the process' stdin
  inbox,       \* correlation ids the process has received and not answered
  nextCid,     \* next correlation id of each peer
  pending,     \* pending map of each peer: correlation id -> call
  hold,        \* what the loop thread is blocked on in blocking_send
  calls,       \* the requests issued to each plugin: sequence of call records
  cwait,       \* create_plugin awaiting `ret` for the id
  ret,         \* what the manager operation of the last step returned
  allocated,   \* history: ids handed out by create_plugin, in order
  removed,     \* history: remove_plugin has returned Ok for the id
  wait,        \* the readiness wait of the chat client's current operation
  weak,        \* ids of the plugins a client holds a Weak<Plugin> of
  app,         \* the last application of a conversion or predicate: what
               \* was applied, to which argument, with which result
  dl,          \* a download_plugin call, the token and the files it works on
  llm          \* a client that keeps an LLMState and announces it on a
               \* broadcast channel, and the readiness wait of an operation

vars == << os, counter, plugins, lock, rs, tpc, notified, sent, proc,
           methods, inbox, nextCid, pending, hold, calls, cwait, ret,
           allocated, removed, wait, weak, app, dl, llm >>

chatVars == << wait, weak >>
auxVars == << app, dl, llm >>
thrVars == << tpc, notified >>
procVars == << proc, methods, inbox >>
peerVars == << nextCid, pending, hold, calls >>
histVars == << allocated, removed >>

\* everything but the state of the chat client's operation and `ret`
mgrVars == << os, counter, plugins, lock, rs, thrVars, sent, procVars, peerVars,
              cwait, histVars, auxVars >>

Free == << "free", NoId >>
RemoveH(p) == << "remove_plugin", p >>
ExitH(p) == << "plugin_exit", p >>
Caller == << "caller", NoId >>   \* issuer of a request that holds no lock

NoHold == << >>
NoRet == [op |-> "none", id |-> NoId, r |-> "none"]

\* the step taken is not the return of a manager operation
NoReturn == ret' = NoRet

\* nothing has been applied
NoApp == [fn |-> "none", arg |-> << >>, res |-> << >>]

\* the server has reported no content length
NoLen == -1

\* download_plugin has not been called
NoDownload ==
  [ pc |-> "idle", res |-> "none", tok |-> "none", callback |-> FALSE,
    status |-> "none", len |-> NoLen,   \* the response as the server sent it
    total |-> NoLen, recv |-> 0, written |-> 0, part |-> "absent",
    created |-> FALSE, final0 |-> "absent", final |-> "absent",
    progress |-> 0, cancelAt |-> NoLen ]

\* no client with an LLMState has been constructed
NoClient ==
  [ client |-> "none", state |-> [st |-> "Loading", id |-> NoId],
    ipc |-> "idle",      \* position of init_chat_plugin / init_embedding_plugin
    upd |-> FALSE,       \* update_state has written the state and not yet sent it
    inits |-> 0,         \* calls of init_*_plugin so far
    ids |-> 0,           \* plugin ids the manager has returned to the client
    wpc |-> "idle",      \* position of wait_plugin_ready
    rx |-> << >>,        \* values the receiver of the wait has not yet taken
    t |-> 0,             \* seconds the wait has spent under its timeout
    ready |-> FALSE ]    \* history: the state was set to Ready during the wait

\* the chat client is in no operation
NoWait == [st |-> "idle", seen |-> Connecting, t |-> 0, id |-> NoId]

Init ==
  /\ os \in Hosts
  /\ counter = 0
  /\ plugins = << >>
  /\ lock = Free
  /\ rs = Connecting
  /\ tpc = [p \in PluginIds |-> "none"]
  /\ notified = [p \in PluginIds |-> FALSE]
  /\ sent = [p \in PluginIds |-> << >>]
  /\ proc = [p \in PluginIds |-> "none"]
  /\ methods = [p \in PluginIds |-> << >>]
  /\ inbox = [p \in PluginIds |-> {}]
  /\ nextCid = [p \in PluginIds |-> 1]
  /\ pending = [p \in PluginIds |-> << >>]
  /\ hold = [p \in PluginIds |-> NoHold]
  /\ calls = [p \in PluginIds |-> << >>]
  /\ cwait = [p \in PluginIds |-> FALSE]
  /\ ret = NoRet
  /\ allocated = << >>
  /\ removed = [p \in PluginIds |-> "no"]
  /\ wait = NoWait
  /\ weak = {}
  /\ app = NoApp
  /\ dl = NoDownload
  /\ llm = NoClient

(* ---------------------------- helpers ---------------------------------- *)
Range(f) == { f[x] : x \in DOMAIN f }

Put(f, key, v) == [x \in (DOMAIN f) \cup {key} |-> IF x = key THEN v ELSE f[x]]

Del(f, key) == [x \in (DOMAIN f) \ {key} |-> f[x]]

RemoveAt(seq, i) == [j \in 1 .. (Len(seq) - 1) |-> IF j < i THEN seq[j] ELSE seq[j + 1]]

\* a lookup that takes the first entry whatever its id
position_first(id) == IF plugins # << >> THEN 1 ELSE 0

\* `plugins.iter().position(|p| p.id == id)`: index of the first match, 0 if none
position(id) ==
  IF \E i \in 1 .. Len(plugins) : plugins[i] = id
  THEN CHOOSE i \in 1 .. Len(plugins) :
         plugins[i] = id /\ \A j \in 1 .. (i - 1) : plugins[j] # id
  ELSE 0

\* `running_state.send(v)` by the worker thread of plugin p
Broadcast(p, v) ==
  /\ rs' = v
  /\ sent' = [sent EXCEPT ![p] = Append(@, v)]

\* the transport loop of p has terminated (mainloop is over or draining)
LoopGone(p) == tpc[p] \in {"draining", "returned", "exiting", "exit_shutdown", "done"}

(* ------------------------------ RPC peer ------------------------------- *)
\* the items of the channel of a streaming call, `Result<ValueType,
\* PluginError>`: the n-th chunk the loop thread received, or an error
OkItem(n) == << "Ok", n >>
ErrItem(n) == << "Err", n >>

NewCall(p, cid, kind, method, owner, failed) ==
  [ pid |-> p, cid |-> cid, kind |-> kind, method |-> method, owner |-> owner,
    st |-> IF failed THEN "err" ELSE "pending",
    got |-> 0,                      \* correlation id of the reply delivered
    n |-> IF failed THEN 1 ELSE 0,  \* times the completion was resolved
    q |-> IF failed /\ kind = "stream" THEN << ErrItem(0) >> ELSE << >>,
    tx |-> (kind = "stream") /\ ~failed,  \* the callback (sender) is alive
    rx |-> IF kind = "stream" THEN "alive" ELSE "none",
    nsent |-> 0,                    \* chunks the loop thread has received
    lost |-> FALSE,                 \* an item was sent after the receiver was dropped
    out |-> << >> ]                 \* items the consumer has taken

\* send_rpc: take a fresh correlation id, register the handler in the pending
\* map and write the request to the process' stdin.  A write to a process
\* that has exited fails and resolves the handler with an error; after the
\* loop has terminated async and streaming calls are resolved with an error.
send_rpc(p, kind, method, owner) ==
  LET cid == nextCid[p]
      alive == proc[p] = "alive"
      failed == ~alive \/ (LoopGone(p) /\ kind # "blocking")
  IN /\ calls' = [calls EXCEPT ![p] =
                    Append(@, NewCall(p, cid, kind, method, owner, failed))]
     /\ nextCid' = [nextCid EXCEPT ![p] = cid + 1]
     /\ pending' = IF failed THEN pending
                   ELSE [pending EXCEPT ![p] = Put(@, cid, Len(calls[p]) + 1)]
     /\ inbox' = IF alive THEN [inbox EXCEPT ![p] = @ \cup {cid}] ELSE inbox
     /\ methods' = IF alive THEN [methods EXCEPT ![p] = Append(@, method)]
                   ELSE methods

\* the blocking "shutdown" call the holder h of the registry lock is waiting in
ShutdownCall(h) ==
  CHOOSE k \in 1 .. Len(calls[h[2]]) :
    calls[h[2]][k].owner = h /\ calls[h[2]][k].method = "shutdown"

(* ---------------------------- PluginManager ---------------------------- *)
\* create_plugin has returned Ok(id)
Created(id) == tpc[id] # "none" /\ ~cwait[id]

Registered(id) == \E i \in 1 .. Len(plugins) : plugins[i] = id

\* a counter that hands the same id out again
fetch_add_same(c) == c

\* `plugin_id_counter.fetch_add(1, SeqCst)`: the counter after the call
fetch_add(c) == c + 1

\* create_plugin: platform check, id allocation, start_plugin_process up to
\* the spawn of the worker thread.  `out` is what the host does with the
\* executable: "noexec" (ensure_executable fails), "nothread" (the thread
\* cannot be spawned), "start" (the worker thread runs).
create_plugin(out) ==
  /\ IF is_not_desktop(os)
     THEN /\ ret' = [op |-> "create_plugin", id |-> NoId, r |-> "Unsupported"]
          /\ UNCHANGED << counter, allocated, tpc, cwait >>
     ELSE LET id == counter IN
          /\ counter' = fetch_add(counter)
          /\ allocated' = Append(allocated, id)
          /\ IF out \in {"noexec", "nothread"}
             THEN /\ ret' = [op |-> "create_plugin", id |-> id, r |-> "Err"]
                  /\ UNCHANGED << tpc, cwait >>
             ELSE /\ tpc' = [tpc EXCEPT ![id] = "spawned"]
                  /\ cwait' = [cwait EXCEPT ![id] = TRUE]
                  /\ NoReturn
  /\ UNCHANGED << os, chatVars, auxVars, plugins, lock, rs, notified, sent, procVars, peerVars,
                  removed >>

\* create_plugin after `ret.await`: the worker thread has sent on `tx`
create_plugin_return(id) ==
  /\ cwait[id]
  /\ notified[id]
  /\ cwait' = [cwait EXCEPT ![id] = FALSE]
  /\ ret' = [op |-> "create_plugin", id |-> id, r |-> "Ok"]
  /\ UNCHANGED << os, chatVars, auxVars, counter, plugins, lock, rs, thrVars, sent, procVars,
                  peerVars, histVars >>

\* get_plugin: one critical section of the registry lock
get_plugin(id) ==
  /\ lock = Free
  /\ ret' = [ op |-> "get_plugin", id |-> id,
              r |-> IF Registered(id) THEN "Ok" ELSE "PluginNotConnected" ]
  /\ UNCHANGED << os, chatVars, auxVars, counter, plugins, lock, rs, thrVars, sent, procVars,
                  peerVars, cwait, histVars >>

\* a disconnect that leaves the entry in the registry
plugin_disconnect_keep(id, h) ==
  LET idx == position(id) IN
  IF idx # 0
  THEN /\ plugins' = plugins
       /\ lock' = h
       /\ send_rpc(id, "blocking", "shutdown", h)
  ELSE UNCHANGED << plugins, lock, methods, inbox, nextCid, pending, calls >>

\* PluginState::plugin_disconnect run by holder h: remove the entry and, when
\* it was there, call plugin.shutdown(), a blocking request, under the lock
plugin_disconnect(id, h) ==
  LET idx == position(id) IN
  IF idx # 0
  THEN /\ plugins' = RemoveAt(plugins, idx)
       /\ lock' = h
       /\ send_rpc(id, "blocking", "shutdown", h)
  ELSE UNCHANGED << plugins, lock, methods, inbox, nextCid, pending, calls >>

\* what `removed` records when remove_plugin(id) returns Ok: "known" when the
\* id was in the registry or create_plugin had returned it before the call
Removal(id, known) ==
  [removed EXCEPT ![id] = IF known \/ @ = "known" THEN "known" ELSE "early"]

\* remove_plugin up to the point where it returns or waits for "shutdown"
remove_plugin(id) ==
  /\ lock = Free
  /\ IF is_not_desktop(os)
     THEN /\ ret' = [op |-> "remove_plugin", id |-> id, r |-> "Unsupported"]
          /\ UNCHANGED << plugins, lock, methods, inbox, nextCid, pending,
                          calls, removed >>
     ELSE /\ plugin_disconnect(id, RemoveH(id))
          /\ IF position(id) # 0
             THEN /\ NoReturn
                  /\ UNCHANGED removed
             ELSE /\ ret' = [op |-> "remove_plugin", id |-> id, r |-> "Ok"]
                  /\ removed' = Removal(id, Created(id))
  /\ UNCHANGED << os, chatVars, auxVars, counter, rs, thrVars, sent, proc, hold, cwait, allocated >>

\* remove_plugin after plugin.shutdown() has returned: the lock is released
remove_plugin_return(id) ==
  /\ lock = RemoveH(id)
  /\ calls[id][ShutdownCall(RemoveH(id))].st # "pending"
  /\ lock' = Free
  /\ ret' = [op |-> "remove_plugin", id |-> id, r |-> "Ok"]
  /\ removed' = Removal(id, TRUE)
  /\ UNCHANGED << os, chatVars, auxVars, counter, plugins, rs, thrVars, sent, procVars, peerVars,
                  cwait, allocated >>

(* ------------------- worker thread: start_plugin_process --------------- *)
\* a worker that announces a terminal state when the spawn has failed
ThreadSpawnFailed_stop(p) ==
  /\ tpc[p] = "spawned"
  /\ notified' = [notified EXCEPT ![p] = TRUE]
  /\ Broadcast(p, UnexpectedStop(p))
  /\ tpc' = [tpc EXCEPT ![p] = "connect_err"]
  /\ UNCHANGED << os, chatVars, auxVars, counter, plugins, lock, procVars,
                  peerVars, cwait, histVars >>
  /\ NoReturn

\* Command::spawn failed: `tx.send(())`
ThreadSpawnFailed(p) ==
  /\ tpc[p] = "spawned"
  /\ notified' = [notified EXCEPT ![p] = TRUE]
  /\ tpc' = [tpc EXCEPT ![p] = "connect_err"]
  /\ UNCHANGED << os, chatVars, auxVars, counter, plugins, lock, rs, sent, procVars,
                  peerVars, cwait, histVars >>
  /\ NoReturn

\* a worker that registers the plugin although its process was not spawned
ThreadConnectErr_push(p) ==
  /\ tpc[p] = "connect_err"
  /\ lock = Free
  /\ plugins' = Append(plugins, p)
  /\ tpc' = [tpc EXCEPT ![p] = "done"]
  /\ UNCHANGED << os, chatVars, auxVars, counter, lock, rs, notified, sent,
                  procVars, peerVars, cwait, histVars >>
  /\ NoReturn

\* ... then `state.plugin_connect(Err(err))`: takes the lock and logs
ThreadConnectErr(p) ==
  /\ tpc[p] = "connect_err"
  /\ lock = Free
  /\ tpc' = [tpc EXCEPT ![p] = "done"]
  /\ UNCHANGED << os, chatVars, auxVars, counter, plugins, lock, rs, notified, sent,
                  procVars, peerVars, cwait, histVars >>
  /\ NoReturn

\* a worker that announces Connected before anything else
ThreadConnecting_connected(p) ==
  /\ tpc[p] = "spawned"
  /\ proc' = [proc EXCEPT ![p] = "alive"]
  /\ Broadcast(p, Connected(p))
  /\ methods' = [methods EXCEPT ![p] = Append(@, "ping")]
  /\ tpc' = [tpc EXCEPT ![p] = "connecting"]
  /\ UNCHANGED << os, chatVars, auxVars, counter, plugins, lock, notified, inbox,
                  peerVars, cwait, histVars >>
  /\ NoReturn

\* the process is spawned: RpcLoop::new, send(Connecting), the "ping"
\* notification is written to the process
ThreadConnecting(p) ==
  /\ tpc[p] = "spawned"
  /\ proc' = [proc EXCEPT ![p] = "alive"]
  /\ Broadcast(p, Connecting)
  /\ methods' = [methods EXCEPT ![p] = Append(@, "ping")]
  /\ tpc' = [tpc EXCEPT ![p] = "connecting"]
  /\ UNCHANGED << os, chatVars, auxVars, counter, plugins, lock, notified, inbox,
                  peerVars, cwait, histVars >>
  /\ NoReturn

\* a plugin_connect that pushes nothing
plugin_connect_nothing(p) ==
  /\ tpc[p] = "connecting"
  /\ lock = Free
  /\ tpc' = [tpc EXCEPT ![p] = "registered"]
  /\ UNCHANGED << os, chatVars, auxVars, counter, plugins, lock, rs, notified, sent,
                  procVars, peerVars, cwait, histVars >>
  /\ NoReturn

\* `state.plugin_connect(Ok(plugin))`: push under the registry lock
plugin_connect(p) ==
  /\ tpc[p] = "connecting"
  /\ lock = Free
  /\ plugins' = Append(plugins, p)
  /\ tpc' = [tpc EXCEPT ![p] = "registered"]
  /\ UNCHANGED << os, chatVars, auxVars, counter, lock, rs, notified, sent, procVars,
                  peerVars, cwait, histVars >>
  /\ NoReturn

\* `running_state.send(Connected { plugin_id })`
ThreadConnected(p) ==
  /\ tpc[p] = "registered"
  /\ Broadcast(p, Connected(p))
  /\ tpc' = [tpc EXCEPT ![p] = "connected"]
  /\ UNCHANGED << os, chatVars, auxVars, counter, plugins, lock, notified, procVars,
                  peerVars, cwait, histVars >>
  /\ NoReturn

\* `tx.send(())`, then the thread enters looper.mainloop
ThreadNotify(p) ==
  /\ tpc[p] = "connected"
  /\ notified' = [notified EXCEPT ![p] = TRUE]
  /\ tpc' = [tpc EXCEPT ![p] = "loop"]
  /\ UNCHANGED << os, chatVars, auxVars, counter, plugins, lock, rs, sent, procVars,
                  peerVars, cwait, histVars >>
  /\ NoReturn

\* mainloop has returned: `running_state.send(Stopped { plugin_id })`
ThreadStopped(p) ==
  /\ tpc[p] = "returned"
  /\ Broadcast(p, Stopped(p))
  /\ tpc' = [tpc EXCEPT ![p] = "exiting"]
  /\ UNCHANGED << os, chatVars, auxVars, counter, plugins, lock, notified, procVars,
                  peerVars, cwait, histVars >>
  /\ NoReturn

\* `state.plugin_exit(id, err)`: plugin_disconnect under the registry lock
plugin_exit(p) ==
  /\ tpc[p] = "exiting"
  /\ lock = Free
  /\ plugin_disconnect(p, ExitH(p))
  /\ tpc' = [tpc EXCEPT ![p] = IF position(p) # 0 THEN "exit_shutdown" ELSE "done"]
  /\ UNCHANGED << os, chatVars, auxVars, counter, rs, notified, sent, proc, hold,
                  cwait, histVars >>
  /\ NoReturn

\* plugin_exit after plugin.shutdown() has returned: the lock is released
plugin_exit_return(p) ==
  /\ tpc[p] = "exit_shutdown"
  /\ lock = ExitH(p)
  /\ calls[p][ShutdownCall(ExitH(p))].st # "pending"
  /\ lock' = Free
  /\ tpc' = [tpc EXCEPT ![p] = "done"]
  /\ UNCHANGED << os, chatVars, auxVars, counter, plugins, rs, notified, sent,
                  procVars, peerVars, cwait, histVars >>
  /\ NoReturn

(* ------------------------- Plugin: requests ---------------------------- *)
CallerCalls(p) == { k \in 1 .. Len(calls[p]) : calls[p][k].owner = Caller }

StreamCalls(p) == { k \in 1 .. Len(calls[p]) : calls[p][k].kind = "stream" }

\* a caller resolves the id (get_plugin, upgrade) and issues a request
Request(id, kind, method) ==
  /\ lock = Free
  /\ Registered(id)
  /\ Cardinality(CallerCalls(id)) < MaxCalls
  /\ kind = "stream" => Cardinality(StreamCalls(id)) < MaxStreams
  /\ send_rpc(id, kind, method, Caller)
  /\ UNCHANGED << os, chatVars, auxVars, counter, plugins, lock, rs, thrVars, sent, proc, hold,
                  cwait, histVars >>
  /\ NoReturn

\* init_plugin: get_plugin, then the blocking plugin.initialize
init_plugin(id) == is_desktop(os) /\ Request(id, "blocking", "initialize")

\* init_plugin that fails before a request is sent: the platform is not
\* supported, or get_plugin finds no plugin under the id
init_plugin_err(id) ==
  /\ is_not_desktop(os) \/ (lock = Free /\ ~Registered(id))
  /\ ret' = [ op |-> "init_plugin", id |-> id,
              r |-> IF is_not_desktop(os) THEN "Unsupported"
                    ELSE "PluginNotConnected" ]
  /\ UNCHANGED << mgrVars, chatVars >>

\* send_request: get_plugin, then the blocking plugin.request
send_request(id) == Request(id, "blocking", "handle")

\* async_send_request / Plugin::async_request: a oneshot channel per call
async_request(id) == Request(id, "async", "handle")

\* Plugin::stream_request: a bounded channel per call
stream_request(id) == Request(id, "stream", "handle")

\* a callback that resolves the completion of the first call
CallbackTx_first(k) == 1

\* the completion a reply handed to the callback of call k resolves: the
\* closure of async_request owns the `tx` of its own oneshot channel
CallbackTx(k) == k

\* a send into a channel without a capacity
CanSend_unbounded(c) == TRUE

\* a send that waits for room in the channel of a receiver that is alive
CanSend_alive(c) == c.rx = "alive" /\ Len(c.q) < StreamCapacity

\* tx.blocking_send returns at once when the receiver is gone and otherwise
\* waits until the channel has room
CanSend(c) == c.rx = "dropped" \/ Len(c.q) < StreamCapacity

blocking_send(c, item) ==
  IF c.rx = "dropped" THEN [c EXCEPT !.lost = TRUE] ELSE [c EXCEPT !.q = Append(@, item)]

\* a receiver that hands out the newest item of the channel
recv_newest(q) == q[Len(q)]

\* Receiver::recv: the oldest item of the channel
recv(q) == Head(q)

\* the consumer takes the next item of stream k, or sees the end of the stream
stream_next(p, k) ==
  /\ k \in 1 .. Len(calls[p])
  /\ calls[p][k].kind = "stream" /\ calls[p][k].rx = "alive"
  /\ \/ /\ calls[p][k].q # << >>
        /\ calls' = [calls EXCEPT ![p][k].out = Append(@, recv(calls[p][k].q)),
                                  ![p][k].q = Tail(@)]
     \/ /\ calls[p][k].q = << >> /\ ~calls[p][k].tx
        /\ calls' = [calls EXCEPT ![p][k].rx = "ended"]
  /\ UNCHANGED << os, chatVars, auxVars, counter, plugins, lock, rs, thrVars, sent, procVars,
                  nextCid, pending, hold, cwait, histVars >>
  /\ NoReturn

\* the consumer drops the stream of call k: the receiver is gone
stream_drop(p, k) ==
  /\ k \in 1 .. Len(calls[p])
  /\ calls[p][k].kind = "stream" /\ calls[p][k].rx = "alive"
  /\ calls' = [calls EXCEPT ![p][k].rx = "dropped", ![p][k].q = << >>]
  /\ UNCHANGED << os, chatVars, auxVars, counter, plugins, lock, rs, thrVars, sent, procVars,
                  nextCid, pending, hold, cwait, histVars >>
  /\ NoReturn

(* --------------------------- plugin process ---------------------------- *)
\* the process exits (on "shutdown", or by crashing): its pipes are closed
ProcessExit(p) ==
  /\ proc[p] = "alive"
  /\ proc' = [proc EXCEPT ![p] = "exited"]
  /\ inbox' = [inbox EXCEPT ![p] = {}]
  /\ UNCHANGED << os, chatVars, auxVars, counter, plugins, lock, rs, thrVars, sent, methods,
                  peerVars, cwait, histVars >>
  /\ NoReturn

\* a blocking waiter observes the death of the process
BlockingObserveDeath(p, k) ==
  /\ k \in 1 .. Len(calls[p])
  /\ calls[p][k].kind = "blocking" /\ calls[p][k].st = "pending"
  /\ proc[p] = "exited"
  /\ calls' = [calls EXCEPT ![p][k].st = "err", ![p][k].n = @ + 1]
  /\ pending' = [pending EXCEPT ![p] = Del(@, calls[p][k].cid)]
  /\ UNCHANGED << os, chatVars, auxVars, counter, plugins, lock, rs, thrVars, sent, procVars,
                  nextCid, hold, cwait, histVars >>
  /\ NoReturn

(* --------------------- transport loop: mainloop ------------------------ *)
\* the loop thread of p is in mainloop and not blocked in a callback
LoopReady(p) == tpc[p] = "loop" /\ hold[p] = NoHold

\* the first successful traffic moves the plugin to Running
FirstTraffic(p) ==
  IF Running(p) \in Range(sent[p])
  THEN UNCHANGED << rs, sent >>
  ELSE Broadcast(p, Running(p))

\* a frame that answers no request (the process reacts to "ping")
LoopTraffic(p) ==
  /\ LoopReady(p) /\ proc[p] = "alive"
  /\ Running(p) \notin Range(sent[p])
  /\ FirstTraffic(p)
  /\ UNCHANGED << os, chatVars, auxVars, counter, plugins, lock, thrVars, procVars, peerVars,
                  cwait, histVars >>
  /\ NoReturn

\* the process answers request cid and the loop hands the reply to the
\* handler registered under that id: a blocking waiter or a oneshot callback
LoopReply(p, cid) ==
  /\ LoopReady(p) /\ proc[p] = "alive"
  /\ cid \in inbox[p] /\ cid \in DOMAIN pending[p]
  /\ calls[p][pending[p][cid]].kind # "stream"
  /\ LET k == pending[p][cid]
         t == IF calls[p][k].kind = "async" THEN CallbackTx(k) ELSE k
     IN calls' = [calls EXCEPT ![p][t].st = "ok", ![p][t].got = cid, ![p][t].n = @ + 1]
  /\ pending' = [pending EXCEPT ![p] = Del(@, cid)]
  /\ inbox' = [inbox EXCEPT ![p] = @ \ {cid}]
  /\ FirstTraffic(p)
  /\ UNCHANGED << os, chatVars, auxVars, counter, plugins, lock, thrVars, proc, methods, nextCid,
                  hold, cwait, histVars >>
  /\ NoReturn

\* the process emits a chunk of streaming call cid and the loop thread runs
\* the stream callback, which pushes it with blocking_send
LoopChunk(p, cid) ==
  /\ LoopReady(p) /\ proc[p] = "alive"
  /\ cid \in inbox[p] /\ cid \in DOMAIN pending[p]
  /\ calls[p][pending[p][cid]].kind = "stream"
  /\ calls[p][pending[p][cid]].nsent < MaxChunks
  /\ LET k == pending[p][cid]
         c == [calls[p][k] EXCEPT !.nsent = @ + 1]
     IN IF CanSend(c)
        THEN /\ calls' = [calls EXCEPT ![p][k] = blocking_send(c, OkItem(c.nsent))]
             /\ UNCHANGED hold
        ELSE /\ calls' = [calls EXCEPT ![p][k] = c]
             /\ hold' = [hold EXCEPT ![p] = << k, OkItem(c.nsent), FALSE >>]
  /\ FirstTraffic(p)
  /\ UNCHANGED << os, chatVars, auxVars, counter, plugins, lock, thrVars, procVars, nextCid,
                  pending, cwait, histVars >>
  /\ NoReturn

\* the payloads of the chunks of a streaming call: a JSON string, or any
\* other JSON value
StreamPayloads == {"str", "other"}

\* ChatStreamResponseParser::parse_json followed by
\* map_err(PluginError::from), for the n-th chunk: a string decodes to its
\* bytes, any other value is a ParseResponse error
stream_parse_json(json, n) == IF json = "str" THEN OkItem(n) ELSE ErrItem(n)

\* a stream callback that sends nothing for a payload that does not decode
LoopChunkJson_skip(p, cid, json) ==
  /\ LoopReady(p) /\ proc[p] = "alive"
  /\ cid \in inbox[p] /\ cid \in DOMAIN pending[p]
  /\ calls[p][pending[p][cid]].kind = "stream"
  /\ calls[p][pending[p][cid]].nsent < MaxChunks
  /\ LET k == pending[p][cid]
         c == [calls[p][k] EXCEPT !.nsent = @ + 1]
     IN IF json # "str"
        THEN /\ calls' = [calls EXCEPT ![p][k] = c]
             /\ UNCHANGED hold
        ELSE IF CanSend(c)
        THEN /\ calls' = [calls EXCEPT ![p][k] = blocking_send(c, OkItem(c.nsent))]
             /\ UNCHANGED hold
        ELSE /\ calls' = [calls EXCEPT ![p][k] = c]
             /\ hold' = [hold EXCEPT ![p] = << k, OkItem(c.nsent), FALSE >>]
  /\ FirstTraffic(p)
  /\ UNCHANGED << os, chatVars, auxVars, counter, plugins, lock, thrVars, procVars, nextCid,
                  pending, cwait, histVars >>
  /\ NoReturn

\* the process emits a chunk of streaming call cid with payload json: the
\* stream callback decodes it and pushes the result, value or error, with
\* blocking_send; the pending record and the sender stay
LoopChunkJson(p, cid, json) ==
  /\ LoopReady(p) /\ proc[p] = "alive"
  /\ cid \in inbox[p] /\ cid \in DOMAIN pending[p]
  /\ calls[p][pending[p][cid]].kind = "stream"
  /\ calls[p][pending[p][cid]].nsent < MaxChunks
  /\ LET k == pending[p][cid]
         c == [calls[p][k] EXCEPT !.nsent = @ + 1]
         result == stream_parse_json(json, c.nsent)
     IN IF CanSend(c)
        THEN /\ calls' = [calls EXCEPT ![p][k] = blocking_send(c, result)]
             /\ UNCHANGED hold
        ELSE /\ calls' = [calls EXCEPT ![p][k] = c]
             /\ hold' = [hold EXCEPT ![p] = << k, result, FALSE >>]
  /\ FirstTraffic(p)
  /\ UNCHANGED << os, chatVars, auxVars, counter, plugins, lock, thrVars, procVars, nextCid,
                  pending, cwait, histVars >>
  /\ NoReturn

\* the process signals the end of stream cid: the pending record is removed
\* and with it the callback that owns the sender
LoopStreamEnd(p, cid) ==
  /\ LoopReady(p) /\ proc[p] = "alive"
  /\ cid \in inbox[p] /\ cid \in DOMAIN pending[p]
  /\ calls[p][pending[p][cid]].kind = "stream"
  /\ calls' = [calls EXCEPT ![p][pending[p][cid]].st = "ok",
                            ![p][pending[p][cid]].tx = FALSE]
  /\ pending' = [pending EXCEPT ![p] = Del(@, cid)]
  /\ inbox' = [inbox EXCEPT ![p] = @ \ {cid}]
  /\ FirstTraffic(p)
  /\ UNCHANGED << os, chatVars, auxVars, counter, plugins, lock, thrVars, proc, methods, nextCid,
                  hold, cwait, histVars >>
  /\ NoReturn

\* blocking_send returns: the channel has room again or the receiver is gone
LoopUnblock(p) ==
  /\ tpc[p] \in {"loop", "draining"}
  /\ hold[p] # NoHold
  /\ CanSend(calls[p][hold[p][1]])
  /\ LET k == hold[p][1]
         c == blocking_send(calls[p][k], hold[p][2])
     IN calls' = [calls EXCEPT ![p][k] =
                    IF hold[p][3] THEN [c EXCEPT !.st = "err", !.tx = FALSE] ELSE c]
  /\ hold' = [hold EXCEPT ![p] = NoHold]
  /\ UNCHANGED << os, chatVars, auxVars, counter, plugins, lock, rs, thrVars, sent, procVars,
                  nextCid, pending, cwait, histVars >>
  /\ NoReturn

\* the read end reports end of file: the process has exited.  After a
\* manager-initiated "shutdown" this is the graceful end of the loop,
\* otherwise the plugin stopped unexpectedly.
LoopEof(p) ==
  /\ LoopReady(p) /\ proc[p] = "exited"
  /\ IF "shutdown" \in Range(methods[p])
     THEN UNCHANGED << rs, sent >>
     ELSE Broadcast(p, UnexpectedStop(p))
  /\ tpc' = [tpc EXCEPT ![p] = "draining"]
  /\ UNCHANGED << os, chatVars, auxVars, counter, plugins, lock, notified, procVars,
                  peerVars, cwait, histVars >>
  /\ NoReturn

\* an I/O error or a malformed frame: the loop ends, the process lives on
LoopBadFrame(p) ==
  /\ LoopReady(p) /\ proc[p] = "alive"
  /\ Broadcast(p, UnexpectedStop(p))
  /\ tpc' = [tpc EXCEPT ![p] = "draining"]
  /\ UNCHANGED << os, chatVars, auxVars, counter, plugins, lock, notified, procVars,
                  peerVars, cwait, histVars >>
  /\ NoReturn

\* loop termination resolves a pending async or streaming call with an error
LoopDrain(p, cid) ==
  /\ tpc[p] = "draining" /\ hold[p] = NoHold
  /\ cid \in DOMAIN pending[p]
  /\ calls[p][pending[p][cid]].kind # "blocking"
  /\ LET k == pending[p][cid]
         c == calls[p][k]
     IN IF c.kind = "async"
        THEN /\ calls' = [calls EXCEPT ![p][CallbackTx(k)].st = "err",
                                       ![p][CallbackTx(k)].n = @ + 1]
             /\ UNCHANGED hold
        ELSE IF CanSend(c)
        THEN /\ calls' = [calls EXCEPT ![p][k] =
                            [blocking_send(c, ErrItem(0)) EXCEPT !.st = "err", !.tx = FALSE]]
             /\ UNCHANGED hold
        ELSE /\ hold' = [hold EXCEPT ![p] = << k, ErrItem(0), TRUE >>]
             /\ UNCHANGED calls
  /\ pending' = [pending EXCEPT ![p] = Del(@, cid)]
  /\ UNCHANGED << os, chatVars, auxVars, counter, plugins, lock, rs, thrVars, sent, procVars,
                  nextCid, cwait, histVars >>
  /\ NoReturn

\* every async and streaming call is resolved: mainloop returns
LoopReturn(p) ==
  /\ tpc[p] = "draining" /\ hold[p] = NoHold
  /\ \A cid \in DOMAIN pending[p] : calls[p][pending[p][cid]].kind = "blocking"
  /\ tpc' = [tpc EXCEPT ![p] = "returned"]
  /\ UNCHANGED << os, chatVars, auxVars, counter, plugins, lock, rs, notified, sent,
                  procVars, peerVars, cwait, histVars >>
  /\ NoReturn

(* --------------------------- specifications ---------------------------- *)
\* start_plugin_process as the host lets it run
Outcomes == {"noexec", "nothread", "start"}

ThreadNext ==
  \/ \E p \in PluginIds : ThreadSpawnFailed(p)
  \/ \E p \in PluginIds : ThreadConnectErr(p)
  \/ \E p \in PluginIds : ThreadConnecting(p)
  \/ \E p \in PluginIds : plugin_connect(p)
  \/ \E p \in PluginIds : ThreadConnected(p)
  \/ \E p \in PluginIds : ThreadNotify(p)
  \/ \E p \in PluginIds : ThreadStopped(p)
  \/ \E p \in PluginIds : plugin_exit(p)
  \/ \E p \in PluginIds : plugin_exit_return(p)

\* the loop and the process without the frames that answer no request
LoopCoreNext ==
  \/ \E p \in PluginIds : \E cid \in inbox[p] : LoopReply(p, cid)
  \/ \E p \in PluginIds : LoopEof(p)
  \/ \E p \in PluginIds : LoopBadFrame(p)
  \/ \E p \in PluginIds : LoopReturn(p)
  \/ \E p \in PluginIds : ProcessExit(p)
  \/ \E p \in PluginIds : \E k \in 1 .. Len(calls[p]) : BlockingObserveDeath(p, k)

LoopNext ==
  \/ \E p \in PluginIds : LoopTraffic(p)
  \/ LoopCoreNext

\* the plugin lifecycle: clients create plugins and remove the ones they
\* hold, the worker threads and their loops run
Next ==
  \/ \E out \in Outcomes : counter < MaxPlugins /\ create_plugin(out)
  \/ \E id \in PluginIds : create_plugin_return(id)
  \/ \E id \in PluginIds : Registered(id) /\ remove_plugin(id)
  \/ \E id \in PluginIds : remove_plugin_return(id)
  \/ ThreadNext
  \/ LoopNext

Spec == Init /\ [][Next]_vars

\* ids whose worker thread was started
Started == { id \in PluginIds : tpc[id] # "none" }

\* the allocation of ids: concurrent create_plugin calls that fail after the
\* allocation or start a worker, and removals of registered plugins
IdsNext ==
  \/ \E out \in {"noexec", "nothread"} : counter < MaxPlugins /\ create_plugin(out)
  \/ /\ counter < MaxPlugins /\ Cardinality(Started) < MaxStarted
     /\ create_plugin("start")
  \/ \E id \in PluginIds : create_plugin_return(id)
  \/ \E id \in PluginIds : Registered(id) /\ remove_plugin(id)
  \/ \E id \in PluginIds : remove_plugin_return(id)
  \/ ThreadNext
  \/ LoopCoreNext

SpecIds == Init /\ [][IdsNext]_vars

\* the registry: lookups and removals of any id, known or not.  The Running
\* broadcast of the loop plays no part in it.
RegistryNext ==
  \/ \E out \in Outcomes : counter < MaxStarted /\ create_plugin(out)
  \/ \E id \in PluginIds : create_plugin_return(id)
  \/ \E id \in PluginIds : get_plugin(id)
  \/ \E id \in PluginIds : remove_plugin(id)
  \/ \E id \in PluginIds : remove_plugin_return(id)
  \/ ThreadNext
  \/ LoopCoreNext

SpecRegistry == Init /\ [][RegistryNext]_vars

\* the start of a plugin whose executable cannot be made executable, whose
\* thread or whose process cannot be spawned, or which starts; the plugins
\* are created one after the other, callers look the ids up and initialise
\* the plugins, once each
SpawnNext ==
  \/ \E out \in Outcomes :
       /\ counter < MaxStarted /\ \A id \in PluginIds : ~cwait[id]
       /\ create_plugin(out)
  \/ \E id \in PluginIds : create_plugin_return(id)
  \/ \E id \in PluginIds : get_plugin(id)
  \/ \E id \in PluginIds : CallerCalls(id) = {} /\ init_plugin(id)
  \/ \E id \in PluginIds : init_plugin_err(id)
  \/ ThreadNext
  \/ LoopCoreNext

SpecSpawn == Init /\ [][SpawnNext]_vars

\* the requests of one plugin: callers issue blocking and async requests,
\* the process answers them in any order, the loop resolves what is pending
\* when it terminates
RpcNext ==
  \/ counter = 0 /\ create_plugin("start")
  \/ \E id \in PluginIds : create_plugin_return(id)
  \/ \E id \in PluginIds : init_plugin(id)
  \/ \E id \in PluginIds : send_request(id)
  \/ \E id \in PluginIds : async_request(id)
  \/ \E p \in PluginIds : \E cid \in DOMAIN pending[p] : LoopDrain(p, cid)
  \/ ThreadNext
  \/ LoopNext

SpecRpc == Init /\ [][RpcNext]_vars

\* the removal of a plugin while blocking and async calls are in flight
RemovalNext ==
  \/ counter = 0 /\ create_plugin("start")
  \/ \E id \in PluginIds : create_plugin_return(id)
  \/ \E id \in PluginIds : Registered(id) /\ remove_plugin(id)
  \/ \E id \in PluginIds : remove_plugin_return(id)
  \/ \E id \in PluginIds : send_request(id)
  \/ \E id \in PluginIds : async_request(id)
  \/ \E p \in PluginIds : \E cid \in DOMAIN pending[p] : LoopDrain(p, cid)
  \/ ThreadNext
  \/ LoopNext

\* the streams of one plugin whose consumer does not read: it keeps the
\* stream, or drops it
StreamNext ==
  \/ counter = 0 /\ create_plugin("start")
  \/ \E id \in PluginIds : create_plugin_return(id)
  \/ \E id \in PluginIds : async_request(id)
  \/ \E id \in PluginIds : stream_request(id)
  \/ \E p \in PluginIds : \E k \in 1 .. Len(calls[p]) : stream_drop(p, k)
  \/ \E p \in PluginIds : \E cid \in inbox[p] : LoopChunk(p, cid)
  \/ \E p \in PluginIds : \E cid \in inbox[p] : LoopStreamEnd(p, cid)
  \/ \E p \in PluginIds : LoopUnblock(p)
  \/ \E p \in PluginIds : \E cid \in DOMAIN pending[p] : LoopDrain(p, cid)
  \/ ThreadNext
  \/ LoopNext

\* the steps of the worker thread of p that need nothing from outside
WorkerStep(p) ==
  \/ ThreadSpawnFailed(p) \/ ThreadConnectErr(p) \/ ThreadConnecting(p)
  \/ plugin_connect(p) \/ ThreadConnected(p) \/ ThreadNotify(p)
  \/ LoopEof(p) \/ LoopUnblock(p) \/ LoopReturn(p)
  \/ \E cid \in DOMAIN pending[p] : LoopDrain(p, cid)
  \/ ThreadStopped(p) \/ plugin_exit(p) \/ plugin_exit_return(p)

\* the steps of a caller's thread that need nothing from outside
CallerStep ==
  \/ \E id \in PluginIds : create_plugin_return(id)
  \/ \E id \in PluginIds : remove_plugin_return(id)
  \/ \E p \in PluginIds : \E k \in 1 .. Len(calls[p]) : BlockingObserveDeath(p, k)

\* every thread of the program keeps running; nothing is assumed of the
\* plugin process, of the callers' next requests or of a stream's consumer
Fairness ==
  /\ \A p \in PluginIds : WF_vars(WorkerStep(p))
  /\ WF_vars(CallerStep)

FairSpec == Init /\ [][RemovalNext]_vars /\ Fairness

FairStreamSpec == Init /\ [][StreamNext]_vars /\ Fairness

\* the requests callers have issued, over all plugins
AllCallerCalls == UNION { { << p, k >> : k \in CallerCalls(p) } : p \in PluginIds }

\* the streaming requests among them
AllStreamCalls == UNION { { << p, k >> : k \in StreamCalls(p) } : p \in PluginIds }

\* streams whose consumer drops them mid-stream, next to async requests on
\* the same plugin and on another one; the plugins are created one after the
\* other and their processes keep running
DropNext ==
  \/ /\ counter < MaxPlugins /\ \A id \in PluginIds : ~cwait[id]
     /\ create_plugin("start")
  \/ \E id \in PluginIds : create_plugin_return(id)
  \/ \E id \in PluginIds :
       Cardinality(AllCallerCalls) < MaxCalls /\ async_request(id)
  \/ \E id \in PluginIds :
       /\ Cardinality(AllCallerCalls) < MaxCalls
       /\ Cardinality(AllStreamCalls) < MaxStreams
       /\ stream_request(id)
  \/ \E p \in PluginIds : \E k \in 1 .. Len(calls[p]) : stream_drop(p, k)
  \/ \E p \in PluginIds : \E cid \in inbox[p] :
       /\ cid \in DOMAIN pending[p]
       /\ calls[p][pending[p][cid]].nsent < MaxDropChunks
       /\ LoopChunk(p, cid)
  \/ \E p \in PluginIds : \E cid \in inbox[p] : LoopStreamEnd(p, cid)
  \/ \E p \in PluginIds : \E cid \in inbox[p] : LoopReply(p, cid)
  \/ \E p \in PluginIds : ThreadConnecting(p)
  \/ \E p \in PluginIds : plugin_connect(p)
  \/ \E p \in PluginIds : ThreadConnected(p)
  \/ \E p \in PluginIds : ThreadNotify(p)

\* the streams of one plugin whose consumer reads them to the end, while the
\* process emits chunks and ends the stream, or exits
ReadNext ==
  \/ counter = 0 /\ create_plugin("start")
  \/ \E id \in PluginIds : create_plugin_return(id)
  \/ \E id \in PluginIds : stream_request(id)
  \/ \E p \in PluginIds : \E k \in 1 .. Len(calls[p]) : stream_next(p, k)
  \/ \E p \in PluginIds : \E cid \in inbox[p] :
       /\ cid \in DOMAIN pending[p]
       /\ calls[p][pending[p][cid]].nsent < MaxDropChunks
       /\ LoopChunk(p, cid)
  \/ \E p \in PluginIds : \E cid \in inbox[p] : LoopStreamEnd(p, cid)
  \/ \E p \in PluginIds : ProcessExit(p)
  \/ \E p \in PluginIds : LoopEof(p)
  \/ \E p \in PluginIds : \E cid \in DOMAIN pending[p] : LoopDrain(p, cid)
  \/ \E p \in PluginIds : LoopReturn(p)
  \/ ThreadNext

\* the streams of one plugin whose chunks carry payloads that decode and
\* payloads that do not, while the consumer reads them to the end and the
\* process ends the stream, or exits
DecodeNext ==
  \/ counter = 0 /\ create_plugin("start")
  \/ \E id \in PluginIds : create_plugin_return(id)
  \/ \E id \in PluginIds : stream_request(id)
  \/ \E p \in PluginIds : \E k \in 1 .. Len(calls[p]) : stream_next(p, k)
  \/ \E p \in PluginIds : \E cid \in inbox[p] : \E json \in StreamPayloads :
       /\ cid \in DOMAIN pending[p]
       /\ calls[p][pending[p][cid]].nsent < MaxDropChunks
       /\ LoopChunkJson(p, cid, json)
  \/ \E p \in PluginIds : \E cid \in inbox[p] : LoopStreamEnd(p, cid)
  \/ \E p \in PluginIds : ProcessExit(p)
  \/ \E p \in PluginIds : LoopEof(p)
  \/ \E p \in PluginIds : \E cid \in DOMAIN pending[p] : LoopDrain(p, cid)
  \/ \E p \in PluginIds : LoopReturn(p)
  \/ ThreadNext

SpecDecode == Init /\ [][DecodeNext]_vars

\* the streams of one plugin whose process emits more chunks than the
\* channel holds, while the consumer takes a few items and then stops reading
FillNext ==
  \/ counter = 0 /\ create_plugin("start")
  \/ \E id \in PluginIds : create_plugin_return(id)
  \/ \E id \in PluginIds : stream_request(id)
  \/ \E p \in PluginIds : \E k \in 1 .. Len(calls[p]) :
       Len(calls[p][k].out) < MaxDropChunks /\ stream_next(p, k)
  \/ \E p \in PluginIds : \E cid \in inbox[p] : LoopChunk(p, cid)
  \/ \E p \in PluginIds : \E cid \in inbox[p] : LoopStreamEnd(p, cid)
  \/ \E p \in PluginIds : LoopUnblock(p)
  \/ \E p \in PluginIds : ThreadConnecting(p)
  \/ \E p \in PluginIds : plugin_connect(p)
  \/ \E p \in PluginIds : ThreadConnected(p)
  \/ \E p \in PluginIds : ThreadNotify(p)

SpecFill == Init /\ [][FillNext]_vars

\* the consumer of a stream keeps polling it
ConsumerReads ==
  \A p \in PluginIds : \A k \in 1 .. MaxCalls : WF_vars(stream_next(p, k))

FairReadSpec == Init /\ [][ReadNext]_vars /\ Fairness /\ ConsumerReads

\* sibling plugins, created one after the other, with requests in flight
\* while the loop of one of them terminates
SiblingNext ==
  \/ /\ counter < MaxPlugins /\ \A id \in PluginIds : ~cwait[id]
     /\ create_plugin("start")
  \/ \E id \in PluginIds : create_plugin_return(id)
  \/ \E id \in PluginIds :
       Cardinality(AllCallerCalls) < MaxCalls /\ send_request(id)
  \/ \E id \in PluginIds :
       Cardinality(AllCallerCalls) < MaxCalls /\ async_request(id)
  \/ \E p \in PluginIds : \E cid \in DOMAIN pending[p] : LoopDrain(p, cid)
  \/ ThreadNext
  \/ LoopCoreNext

FairSiblingSpec == Init /\ [][SiblingNext]_vars /\ Fairness

\* the plugin process answers the requests it has received for as long as
\* the loop reads its output
ProcessAnswers ==
  \A p \in PluginIds : WF_vars(\E cid \in inbox[p] : LoopReply(p, cid))

FairDropSpec == Init /\ [][DropNext]_vars /\ Fairness /\ ProcessAnswers

(* --------------------------- LocalChatLLMChat -------------------------- *)
\* no manager operation of the chat client is in flight
ChatIdle == lock[1] # "remove_plugin" /\ \A id \in PluginIds : ~cwait[id]

\* destroy_chat_plugin: remove the plugin whose id the channel carries
destroy_chat_plugin ==
  /\ ChatIdle
  /\ plugin_id(rs) # NoId
  /\ remove_plugin(plugin_id(rs))

\* init_chat_plugin after destroy_chat_plugin has returned: create_plugin
\* with the channel of the client
init_chat_plugin(out) ==
  /\ ChatIdle
  /\ plugin_id(rs) # NoId => ~Registered(plugin_id(rs))
  /\ create_plugin(out)

\* the chat client re-initialises its plugin, one call after the other
ChatNext ==
  \/ \E out \in Outcomes : counter < MaxPlugins /\ init_chat_plugin(out)
  \/ \E id \in PluginIds : create_plugin_return(id)
  \/ destroy_chat_plugin
  \/ \E id \in PluginIds : remove_plugin_return(id)
  \/ ThreadNext
  \/ LoopNext

SpecChat == Init /\ [][ChatNext]_vars

\* the "initialize" calls issued to plugin id
InitCalls(id) == { k \in 1 .. Len(calls[id]) : calls[id][k].method = "initialize" }

\* init_chat_plugin after create_plugin has returned the id: init_plugin
chat_init_plugin(id) ==
  /\ ChatIdle
  /\ id = counter - 1 /\ Created(id)
  /\ InitCalls(id) = {}
  /\ init_plugin(id)

\* init_chat_plugin in full: the earlier plugin is destroyed, the new one is
\* created and initialised
ChatInitNext ==
  \/ \E out \in Outcomes : counter < MaxPlugins /\ init_chat_plugin(out)
  \/ \E id \in PluginIds : create_plugin_return(id)
  \/ \E id \in PluginIds : chat_init_plugin(id)
  \/ destroy_chat_plugin
  \/ \E id \in PluginIds : remove_plugin_return(id)
  \/ ThreadNext
  \/ LoopNext

SpecChatInit == Init /\ [][ChatInitNext]_vars

\* destroy_chat_plugin while other calls of the client may be under way
concurrent_destroy_chat_plugin ==
  /\ plugin_id(rs) # NoId
  /\ remove_plugin(plugin_id(rs))

\* init_chat_plugin while other calls of the client may be under way: its
\* destroy_chat_plugin finds no id on the channel, or no plugin under the id,
\* and create_plugin is called
concurrent_init_chat_plugin(out) ==
  /\ plugin_id(rs) # NoId => (lock = Free /\ ~Registered(plugin_id(rs)))
  /\ create_plugin(out)

\* callers that share the client call init_chat_plugin and
\* destroy_chat_plugin without waiting for each other
ChatConcurrentNext ==
  \/ \E out \in Outcomes : counter < MaxPlugins /\ concurrent_init_chat_plugin(out)
  \/ \E id \in PluginIds : create_plugin_return(id)
  \/ concurrent_destroy_chat_plugin
  \/ \E id \in PluginIds : remove_plugin_return(id)
  \/ ThreadNext
  \/ LoopNext

SpecChatConcurrent == Init /\ [][ChatConcurrentNext]_vars

(* ---------------- LocalEmbedding and its plugins ----------------------- *)
\* LocalEmbedding.plugin_config: None after `new`, and nothing writes it
plugin_config == "None"

\* no init_embedding_plugin call is under way: create_plugin has returned,
\* and init_plugin has returned or has failed to find the plugin
EmbeddingIdle ==
  /\ \A id \in PluginIds : ~cwait[id]
  /\ \A id \in PluginIds : (Created(id) /\ Registered(id)) => InitCalls(id) # {}
  /\ \A id \in PluginIds : \A k \in InitCalls(id) : calls[id][k].st # "pending"

\* init_embedding_plugin up to create_plugin: the stored config is compared
\* with the new one (llm_embedding.rs) or logged (embedding_plugin.rs), the
\* state is set to Loading, create_plugin is called
embedding_create_plugin(config, out) ==
  /\ EmbeddingIdle
  /\ plugin_config # config
  /\ create_plugin(out)

\* init_embedding_plugin after create_plugin has returned the id: init_plugin
embedding_init_plugin(id) ==
  /\ id = counter - 1 /\ Created(id)
  /\ InitCalls(id) = {}
  /\ init_plugin(id)

\* the client initialises its plugin again and again, one call after the
\* other, with the same config or another one
EmbeddingNext ==
  \/ \E config \in {"a", "b"} : \E out \in Outcomes :
       counter < MaxPlugins /\ embedding_create_plugin(config, out)
  \/ \E id \in PluginIds : create_plugin_return(id)
  \/ \E id \in PluginIds : embedding_init_plugin(id)
  \/ ThreadNext
  \/ LoopNext

SpecEmbedding == Init /\ [][EmbeddingNext]_vars

(* ------------------ LocalChatLLMChat: readiness gating ----------------- *)
\* bound of the readiness wait in seconds: `Duration::from_secs(30)`
ReadyTimeout == 30

is_ready(s) == s.st = "Running"

\* the chat client is not inside an operation
ChatOpIdle == wait.st \in {"idle", "issued", "failed", "timeout"}

\* an operation of the chat client enters wait_until_plugin_ready: it
\* returns Ok at once when the state is not loading, and otherwise subscribes
\* to the channel and waits under the timeout
wait_until_plugin_ready ==
  /\ ChatOpIdle
  /\ wait' = [ st |-> IF is_loading(rs) THEN "waiting" ELSE "passed",
               seen |-> rs, t |-> 0, id |-> NoId ]
  /\ UNCHANGED << mgrVars, weak >>
  /\ NoReturn

\* the subscription yields a state that is ready: the wait returns Ok
WaitReady ==
  /\ wait.st = "waiting"
  /\ is_ready(rs)
  /\ wait' = [wait EXCEPT !.st = "passed", !.seen = rs]
  /\ UNCHANGED << mgrVars, weak >>
  /\ NoReturn

\* a second of the wait goes by
Tick ==
  /\ wait.st = "waiting"
  /\ wait.t < ReadyTimeout
  /\ wait' = [wait EXCEPT !.t = @ + 1]
  /\ UNCHANGED << mgrVars, weak >>
  /\ NoReturn

\* the timeout elapses: the wait returns the timeout error
WaitTimeout ==
  /\ wait.st = "waiting"
  /\ wait.t = ReadyTimeout
  /\ wait' = [wait EXCEPT !.st = "timeout"]
  /\ UNCHANGED << mgrVars, weak >>
  /\ NoReturn

\* get_chat_plugin: the id the channel carries is resolved with get_plugin
\* and the operation keeps the Weak<Plugin>
get_chat_plugin ==
  /\ wait.st = "passed"
  /\ plugin_id(rs) # NoId => lock = Free
  /\ LET id == plugin_id(rs) IN
     IF id # NoId /\ Registered(id)
     THEN /\ wait' = [wait EXCEPT !.st = "resolved", !.id = id]
          /\ weak' = weak \cup {id}
          /\ ret' = [op |-> "get_chat_plugin", id |-> id, r |-> "Ok"]
     ELSE /\ wait' = [wait EXCEPT !.st = "failed"]
          /\ weak' = weak
          /\ ret' = [ op |-> "get_chat_plugin", id |-> id,
                      r |-> IF id = NoId THEN "Internal" ELSE "PluginNotConnected" ]
  /\ UNCHANGED mgrVars

\* the Plugin of id p is referenced by an Arc: the one of the registry, the
\* one a caller holds across its blocking or async request, or the one
\* plugin_disconnect holds across plugin.shutdown()
Alive(p) ==
  \/ Registered(p)
  \/ \E k \in 1 .. Len(calls[p]) :
       calls[p][k].kind \in {"blocking", "async"} /\ calls[p][k].st = "pending"

\* Weak::upgrade of a handle kept from an earlier get_plugin
upgrade(id) ==
  /\ id \in weak
  /\ ret' = [ op |-> "upgrade", id |-> id,
              r |-> IF Alive(id) THEN "Ok" ELSE "Dropped" ]
  /\ UNCHANGED << mgrVars, chatVars >>

\* ChatPluginOperation::send_request: the handle is upgraded and the request
\* goes out with Plugin::async_request
chat_send_request ==
  /\ wait.st = "resolved"
  /\ Cardinality(CallerCalls(wait.id)) < MaxCalls
  /\ IF Alive(wait.id)
     THEN /\ send_rpc(wait.id, "async", "handle", Caller)
          /\ wait' = [wait EXCEPT !.st = "issued"]
          /\ NoReturn
     ELSE /\ wait' = [wait EXCEPT !.st = "failed"]
          /\ ret' = [op |-> "upgrade", id |-> wait.id, r |-> "Dropped"]
          /\ UNCHANGED << methods, inbox, nextCid, pending, calls >>
  /\ UNCHANGED << os, counter, plugins, lock, rs, thrVars, sent, proc, hold,
                  cwait, histVars, weak, auxVars >>

\* the operations of the chat client on its plugin: create_chat,
\* stream_question, get_related_question, index_file and ask_question wait
\* for the plugin, resolve it and send their request, while the plugin is
\* initialised, runs, fails or is destroyed
ChatOpsNext ==
  \/ \E out \in Outcomes : counter < MaxStarted /\ init_chat_plugin(out)
  \/ \E id \in PluginIds : create_plugin_return(id)
  \/ destroy_chat_plugin
  \/ \E id \in PluginIds : remove_plugin_return(id)
  \/ wait_until_plugin_ready
  \/ WaitReady
  \/ Tick
  \/ WaitTimeout
  \/ get_chat_plugin
  \/ chat_send_request
  \/ \E id \in PluginIds : upgrade(id)
  \/ \E p \in PluginIds : \E cid \in DOMAIN pending[p] : LoopDrain(p, cid)
  \/ ThreadNext
  \/ LoopNext

SpecChatOps == Init /\ [][ChatOpsNext]_vars

(* ---------------------- predicates and conversions -------------------- *)
\* the manager and its clients
coreVars == << os, counter, plugins, lock, rs, thrVars, sent, procVars, peerVars,
               cwait, histVars, chatVars, ret >>

\* everything but `app`
progVars == << coreVars, dl, llm >>

\* the values of RunningState
RunningStates ==
  {Connecting} \cup
    UNION { {Connected(p), Running(p), Stopped(p), UnexpectedStop(p)} : p \in PluginIds }

\* the values of LLMState
Uninitialized == [st |-> "Uninitialized", id |-> NoId]
Loading == [st |-> "Loading", id |-> NoId]
Ready(p) == [st |-> "Ready", id |-> p]

LLMStates == {Uninitialized, Loading} \cup { Ready(p) : p \in PluginIds }

\* LLMState::is_ready on host o
LLMState_is_ready(o, s) == IF is_desktop(o) THEN s.st = "Ready" ELSE FALSE

\* RunningState::is_ready is applied to a value on the host of the program
call_is_ready(s) ==
  /\ app' = [fn |-> "RunningState::is_ready", arg |-> s, res |-> is_ready(s)]
  /\ UNCHANGED progVars

\* LLMState::is_ready is applied to a value on the host of the program
call_LLMState_is_ready(s) ==
  /\ app' = [fn |-> "LLMState::is_ready", arg |-> s, res |-> LLMState_is_ready(os, s)]
  /\ UNCHANGED progVars

(* response payloads: a JSON value as far as the parsers look at it *)
\* the elements of "data": an item without "content", items whose "content"
\* is a string, an item whose "content" is the number 1 (v is its JSON text)
Items ==
  { [kind |-> "none", v |-> ""], [kind |-> "str", v |-> "a"],
    [kind |-> "str", v |-> "b"], [kind |-> "num", v |-> "1"] }

ItemSeqs == UNION { [1 .. n -> Items] : n \in 0 .. MaxItems }

\* payloads without "data", with a "data" that is no array, with an array
Payloads ==
  { [data |-> "absent", items |-> << >>], [data |-> "scalar", items |-> << >>] }
    \cup { [data |-> "array", items |-> a] : a \in ItemSeqs }

ParseResponse == [ok |-> FALSE, v |-> << >>]
Parsed(v) == [ok |-> TRUE, v |-> v]

\* `iter().flat_map(f).collect()` and `iter().filter_map(f).collect()` for an
\* f that yields an Option: the values of the items f is defined on, in order
flat_map(items, keep(_), f(_)) ==
  LET kept == SelectSeq(items, keep)
  IN [i \in 1 .. Len(kept) |-> f(kept[i])]

\* Value::as_str of the "content" of an item that is a string
as_str(item) == item.v

\* Value::to_string: the JSON text of the "content", a string in its quotes
to_string(item) == IF item.kind = "str" THEN "\"" \o item.v \o "\"" ELSE item.v

\* ChatRelatedQuestionsResponseParser::parse_json of ai_ops.rs
ai_parse_json(json) ==
  IF json.data # "array" THEN ParseResponse
  ELSE Parsed(flat_map(json.items, LAMBDA i : i.kind = "str", as_str))

\* ChatRelatedQuestionsResponseParser::parse_json of chat_ops.rs
chat_parse_json(json) ==
  IF json.data # "array" THEN ParseResponse
  ELSE Parsed(flat_map(json.items, LAMBDA i : i.kind # "none", to_string))

call_ai_parse_json(json) ==
  /\ app' = [fn |-> "ai_ops::parse_json", arg |-> json, res |-> ai_parse_json(json)]
  /\ UNCHANGED progVars

call_chat_parse_json(json) ==
  /\ app' = [fn |-> "chat_ops::parse_json", arg |-> json, res |-> chat_parse_json(json)]
  /\ UNCHANGED progVars

(* CompleteTextType *)
CompleteTextTypes ==
  {"ImproveWriting", "SpellingAndGrammar", "MakeShorter", "MakeLonger", "AskAI"}

U8 == 0 .. 255
I8 == -128 .. 127

\* an enum whose discriminants are counted from 0
discriminant_from_zero(v) ==
  CASE v = "ImproveWriting" -> 0
    [] v = "SpellingAndGrammar" -> 1
    [] v = "MakeShorter" -> 2
    [] v = "MakeLonger" -> 3
    [] v = "AskAI" -> 4

\* `complete_type as u8`: the discriminant of the variant
discriminant(v) ==
  CASE v = "ImproveWriting" -> 1
    [] v = "SpellingAndGrammar" -> 2
    [] v = "MakeShorter" -> 3
    [] v = "MakeLonger" -> 4
    [] v = "AskAI" -> 5

\* `impl From<u8> for CompleteTextType` of ai_ops.rs
from_u8(value) ==
  CASE value = 1 -> "ImproveWriting"
    [] value = 2 -> "SpellingAndGrammar"
    [] value = 3 -> "MakeShorter"
    [] value = 4 -> "MakeLonger"
    [] value = 5 -> "AskAI"
    [] OTHER -> "ImproveWriting"

\* `impl From<i8> for CompleteTextType` of chat_ops.rs
from_i8(value) ==
  CASE value = 1 -> "ImproveWriting"
    [] value = 2 -> "SpellingAndGrammar"
    [] value = 3 -> "MakeShorter"
    [] value = 4 -> "MakeLonger"
    [] value = 5 -> "AskAI"
    [] OTHER -> "ImproveWriting"

call_from_u8(value) ==
  /\ app' = [fn |-> "From<u8>", arg |-> value, res |-> from_u8(value)]
  /\ UNCHANGED progVars

call_from_i8(value) ==
  /\ app' = [fn |-> "From<i8>", arg |-> value, res |-> from_i8(value)]
  /\ UNCHANGED progVars

\* a variant is converted to its code and the code back to a variant
round_trip_u8(v) ==
  /\ app' = [fn |-> "as u8, From<u8>", arg |-> v, res |-> from_u8(discriminant(v))]
  /\ UNCHANGED progVars

round_trip_i8(v) ==
  /\ app' = [fn |-> "as u8, From<i8>", arg |-> v, res |-> from_i8(discriminant(v))]
  /\ UNCHANGED progVars

\* the predicates and conversions applied to any input, on any host
FnNext ==
  \/ \E s \in RunningStates : call_is_ready(s)
  \/ \E s \in LLMStates : call_LLMState_is_ready(s)
  \/ \E json \in Payloads : call_ai_parse_json(json)
  \/ \E json \in Payloads : call_chat_parse_json(json)
  \/ \E value \in U8 : call_from_u8(value)
  \/ \E value \in I8 : call_from_i8(value)
  \/ \E v \in CompleteTextTypes : round_trip_u8(v)
  \/ \E v \in CompleteTextTypes : round_trip_i8(v)

SpecFns == Init /\ [][FnNext]_vars

(* ---------------------------- download_plugin -------------------------- *)
\* fs::remove_file
remove_file(f) == "absent"

\* a content length that counts a missing header as an empty body
content_length_or_zero(len) == IF len = NoLen THEN [some |-> TRUE, v |-> 0]
                               ELSE [some |-> TRUE, v |-> len]

\* Response::content_length: None when the server reports no length
content_length(len) == IF len = NoLen THEN [some |-> FALSE, v |-> 0]
                       ELSE [some |-> TRUE, v |-> len]

\* the token has been cancelled
is_cancelled == dl.tok = "cancelled"

\* download_plugin is called and sends the request.  The final path is free
\* or holds an earlier file; the caller passes a token, or a token that is
\* cancelled already, or none, and a progress callback or none.
download_plugin(final, tok, callback) ==
  /\ dl.pc = "idle"
  /\ dl' = [NoDownload EXCEPT !.pc = "sent", !.tok = tok, !.callback = callback,
                              !.final0 = final, !.final = final,
                              !.cancelAt = IF tok = "cancelled" THEN 0 ELSE NoLen]
  /\ UNCHANGED << coreVars, app, llm >>

\* the owner of the token cancels it while the download is under way
Cancel ==
  /\ dl.pc \in {"sent", "stream"}
  /\ dl.tok = "live"
  /\ dl' = [dl EXCEPT !.tok = "cancelled", !.cancelAt = dl.recv]
  /\ UNCHANGED << coreVars, app, llm >>

\* the response arrives: the status is checked, then the content length, then
\* the temporary file is created
Response(success, len) ==
  /\ dl.pc = "sent"
  /\ LET total == content_length(len)
         got == [dl EXCEPT !.status = IF success THEN "ok" ELSE "fail", !.len = len]
     IN IF ~success \/ ~total.some
        THEN dl' = [got EXCEPT !.pc = "done", !.res = "Err"]
        ELSE dl' = [got EXCEPT !.pc = "stream", !.total = total.v, !.part = "file",
                               !.created = TRUE]
  /\ UNCHANGED << coreVars, app, llm >>

\* the stream yields an item, a chunk of the body (ok) or a transfer error:
\* the token is looked at first; a chunk is written to the temporary file and
\* reported to the progress callback
Chunk(ok) ==
  /\ dl.pc = "stream"
  /\ dl.recv < dl.total
  /\ IF is_cancelled
     THEN dl' = [dl EXCEPT !.pc = "done", !.res = "Err", !.recv = @ + 1,
                           !.part = remove_file(@)]
     ELSE IF ~ok
     THEN dl' = [dl EXCEPT !.pc = "done", !.res = "Err", !.recv = @ + 1]
     ELSE dl' = [dl EXCEPT !.recv = @ + 1, !.written = @ + 1,
                           !.progress = IF dl.callback THEN @ + 1 ELSE @]
  /\ UNCHANGED << coreVars, app, llm >>

\* the stream is at its end: sync_all, then the temporary file is renamed to
\* the final path
Rename ==
  /\ dl.pc = "stream"
  /\ dl.recv = dl.total
  /\ dl' = [dl EXCEPT !.pc = "done", !.res = "Ok", !.part = "absent",
                      !.final = "new"]
  /\ UNCHANGED << coreVars, app, llm >>

DownloadNext ==
  \/ \E final \in {"absent", "old"} : \E tok \in {"none", "live", "cancelled"} :
       \E callback \in BOOLEAN : download_plugin(final, tok, callback)
  \/ Cancel
  \/ \E success \in BOOLEAN : \E len \in {NoLen} \cup (0 .. MaxParts) :
       Response(success, len)
  \/ \E ok \in BOOLEAN : Chunk(ok)
  \/ Rename

SpecDownload == Init /\ [][DownloadNext]_vars

(* ------------------- clients that keep an LLMState --------------------- *)
\* LocalChatLLMChat of llm_chat.rs and LocalEmbedding keep the state of their
\* plugin in `state` and own the broadcast channel `state_notify`; the
\* manager they call is taken as the environment that returns Ok or an error
MaxInits == 2          \* calls of init_chat_plugin / init_embedding_plugin

Clients == {"LocalChatLLMChat", "LocalEmbedding"}

llmFrame == << coreVars, app, dl >>

\* LLMState::is_loading
LLMState_is_loading(s) == s.st = "Loading"

\* `new`: the state is Loading and the channel has no receiver
new(client) ==
  /\ llm.client = "none"
  /\ llm' = [NoClient EXCEPT !.client = client]
  /\ UNCHANGED llmFrame

\* the state the update_state call of the current step of init_*_plugin sets
NextState ==
  CASE llm.ipc = "destroy" -> Uninitialized
    [] llm.ipc = "load" -> Loading
    [] llm.ipc = "setup" -> Ready(llm.ids - 1)

\* what init_*_plugin goes on with when update_state has returned
AfterUpdate(ipc) ==
  CASE ipc = "destroy" -> "load"
    [] ipc = "load" -> "manager"
    [] ipc = "setup" -> "idle"

\* init_chat_plugin of llm_chat.rs is called with a config that is the stored
\* one (same) or another: it returns at once when the state is ready and the
\* config is the stored one, and otherwise goes on with destroy_chat_plugin
llm_init_chat_plugin(same) ==
  /\ llm.client = "LocalChatLLMChat"
  /\ llm.ipc = "idle" /\ llm.inits < MaxInits
  /\ same => llm.ids > 0
  /\ llm' = [llm EXCEPT !.inits = @ + 1,
                        !.ipc = IF LLMState_is_ready(os, llm.state) /\ same
                                THEN "idle" ELSE "destroy"]
  /\ UNCHANGED llmFrame

\* init_embedding_plugin is called: nothing is compared and nothing removed,
\* it goes on with update_state(Loading)
init_embedding_plugin ==
  /\ llm.client = "LocalEmbedding"
  /\ llm.ipc = "idle" /\ llm.inits < MaxInits
  /\ llm' = [llm EXCEPT !.inits = @ + 1, !.ipc = "load"]
  /\ UNCHANGED llmFrame

\* update_state: `*self.state.write().await = state`.  LocalChatLLMChat goes
\* on with the send on state_notify, LocalEmbedding returns.
update_state ==
  /\ llm.ipc \in {"destroy", "load", "setup"} /\ ~llm.upd
  /\ LET chat == llm.client = "LocalChatLLMChat" IN
     llm' = [llm EXCEPT !.state = NextState,
                        !.ready = @ \/ ( /\ llm.wpc \in {"checked", "subscribed"}
                                         /\ NextState.st = "Ready" ),
                        !.upd = chat,
                        !.ipc = IF chat THEN @ ELSE AfterUpdate(@)]
  /\ UNCHANGED llmFrame

\* `state_notify.send(state)`: the receivers that exist at this moment get
\* the value; without a receiver the send fails and the error is ignored
state_notify_send ==
  /\ llm.upd
  /\ llm' = [llm EXCEPT !.upd = FALSE,
                        !.rx = IF llm.wpc = "subscribed" THEN Append(@, llm.state) ELSE @,
                        !.ipc = AfterUpdate(@)]
  /\ UNCHANGED llmFrame

\* create_plugin and init_plugin return: both Ok (on a desktop host), or one
\* of them fails and init_*_plugin returns the error
llm_manager_calls(ok) ==
  /\ llm.ipc = "manager"
  /\ ok => is_desktop(os)
  /\ llm' = [llm EXCEPT !.ipc = IF ok THEN "setup" ELSE "idle",
                        !.ids = IF ok THEN @ + 1 ELSE @]
  /\ UNCHANGED llmFrame

\* an operation enters wait_plugin_ready and reads the state: it returns Ok at
\* once unless the state is Loading
wait_plugin_ready ==
  /\ llm.client # "none"
  /\ llm.wpc \in {"idle", "ok", "timeout"}
  /\ llm' = [llm EXCEPT !.wpc = IF LLMState_is_loading(llm.state) THEN "checked" ELSE "ok",
                        !.rx = << >>, !.t = 0, !.ready = FALSE]
  /\ UNCHANGED llmFrame

\* `self.state_notify.subscribe()`: a receiver for the values sent from now on
subscribe ==
  /\ llm.wpc = "checked"
  /\ llm' = [llm EXCEPT !.wpc = "subscribed"]
  /\ UNCHANGED llmFrame

\* `rx.recv()` yields a value: the wait is over when it is ready
wait_recv ==
  /\ llm.wpc = "subscribed" /\ llm.rx # << >>
  /\ llm' = [llm EXCEPT !.wpc = IF LLMState_is_ready(os, recv(llm.rx)) THEN "ok" ELSE @,
                        !.rx = Tail(@)]
  /\ UNCHANGED llmFrame

\* a second of the wait goes by (update_state does not take a second)
WaitTick ==
  /\ llm.wpc = "subscribed" /\ llm.rx = << >> /\ ~llm.upd
  /\ llm.t < ReadyTimeout
  /\ llm' = [llm EXCEPT !.t = @ + 1]
  /\ UNCHANGED llmFrame

\* the timeout of 30 seconds elapses: the wait returns the timeout error
WaitElapsed ==
  /\ llm.wpc = "subscribed" /\ llm.rx = << >> /\ ~llm.upd
  /\ llm.t = ReadyTimeout
  /\ llm' = [llm EXCEPT !.wpc = "timeout"]
  /\ UNCHANGED llmFrame

\* a client is constructed, its plugin is initialised and re-initialised, and
\* operations wait for the plugin to be ready
LLMNext ==
  \/ \E client \in Clients : new(client)
  \/ \E same \in BOOLEAN : llm_init_chat_plugin(same)
  \/ init_embedding_plugin
  \/ update_state
  \/ state_notify_send
  \/ \E ok \in BOOLEAN : llm_manager_calls(ok)
  \/ wait_plugin_ready
  \/ subscribe
  \/ wait_recv
  \/ WaitTick
  \/ WaitElapsed

SpecLLM == Init /\ [][LLMNext]_vars

(* ------------------------ RunningState broadcasts ---------------------- *)
Terminal(v) == v.st \in {"Stopped", "UnexpectedStop"}

\* place of a state on the path Connecting, Connected, Running, terminal
Rank(v) ==
  CASE v.st = "Connecting" -> 0
    [] v.st = "Connected" -> 1
    [] v.st = "Running" -> 2
    [] OTHER -> 3

\* C1: once Stopped{id} or UnexpectedStop{id} has been broadcast for an id,
\* no further RunningState value carrying that id is broadcast.
C1_TerminalIsLast ==
  \A p \in PluginIds : \A i \in 1 .. Len(sent[p]) : \A j \in 1 .. Len(sent[p]) :
    (i < j /\ Terminal(sent[p][i]) /\ plugin_id(sent[p][i]) = p)
      => plugin_id(sent[p][j]) # p

\* C2: the states broadcast for a plugin appear in the order Connecting,
\* Connected{id}, Running{id}: Connected{id} is never broadcast before
\* Connecting and Running{id} never without a preceding Connected{id}.
C2_BroadcastOrder ==
  \A p \in PluginIds : \A j \in 1 .. Len(sent[p]) :
    /\ sent[p][j] = Connected(p)
         => \E i \in 1 .. (j - 1) : sent[p][i] = Connecting
    /\ sent[p][j] = Running(p)
         => \E i \in 1 .. (j - 1) : sent[p][i] = Connected(p)

\* a plugin has gone through Connecting, Connected and Running
C2_Witness ==
  \E p \in PluginIds :
    Len(sent[p]) >= 3 /\ sent[p][1] = Connecting /\ sent[p][2] = Connected(p)
      /\ sent[p][3] = Running(p)

\* C3: the value of the RunningState channel handed to create_plugin only
\* moves forward along Connecting, Connected, Running, terminal, over any
\* sequence of create_plugin / remove_plugin calls passing the same channel.
\* (A step from one terminal state to the other is not counted as a move
\* backwards here.)
C3_ChannelForward == [][Rank(rs') >= Rank(rs)]_vars

\* C4: the allocated plugin ids are pairwise distinct and handed out in
\* strictly increasing order; an id is never allocated again, also not
\* after its plugin was removed.
C4_IdsIncrease ==
  \A i \in 1 .. Len(allocated) : \A j \in 1 .. Len(allocated) :
    i < j => allocated[i] < allocated[j]

\* create_plugin allocates an id after an earlier plugin was removed
C4_Witness ==
  /\ ret.op = "create_plugin" /\ ret.r = "Err" /\ ret.id > 0
  /\ \E id \in PluginIds : id < ret.id /\ removed[id] = "known"

\* C5: after remove_plugin(id) has returned, every later get_plugin(id)
\* fails with PluginNotConnected.
C5_RemovedStaysGone ==
  [][\A id \in PluginIds :
       (removed[id] # "no" /\ ret'.op = "get_plugin" /\ ret'.id = id)
         => ret'.r = "PluginNotConnected"]_vars

\* C5 as the code has it: after remove_plugin(id) has returned for an id that
\* was registered or that create_plugin had returned before the call, every
\* later get_plugin(id) fails with PluginNotConnected.
C5_KnownRemovedStaysGone ==
  [][\A id \in PluginIds :
       (removed[id] = "known" /\ ret'.op = "get_plugin" /\ ret'.id = id)
         => ret'.r = "PluginNotConnected"]_vars

\* get_plugin fails for an id that had been registered and was then removed
C5_Witness ==
  /\ ret.op = "get_plugin" /\ ret.r = "PluginNotConnected"
  /\ ret.id \in PluginIds /\ removed[ret.id] = "known"
  /\ Connected(ret.id) \in Range(sent[ret.id])

\* a remove_plugin(id) step for an id that is not in the registry is a
\* successful no-op: no request is written and the registry is unchanged
NoOpRemoval(id) ==
  /\ ret'.r = "Ok"
  /\ plugins' = plugins
  /\ calls' = calls /\ methods' = methods /\ inbox' = inbox

\* C6: remove_plugin with an id that is unknown, was never created or was
\* already removed returns success, sends no RPC and leaves the registry
\* unchanged.
C6_RemoveIdempotent ==
  [][\A id \in PluginIds :
       (remove_plugin(id) /\ ~Registered(id)) => NoOpRemoval(id)]_vars

\* C6 as the code has it: on a desktop host, remove_plugin with such an id
\* returns success, sends no RPC and leaves the registry unchanged.
C6_RemoveIdempotentOnDesktop ==
  [][\A id \in PluginIds :
       (is_desktop(os) /\ remove_plugin(id) /\ ~Registered(id))
         => NoOpRemoval(id)]_vars

\* remove_plugin has returned Ok for an id that was never created while
\* another plugin is in the registry
C6_Witness ==
  /\ ret.op = "remove_plugin" /\ ret.r = "Ok" /\ ret.id \in PluginIds
  /\ tpc[ret.id] = "none" /\ counter <= ret.id
  /\ plugins # << >>

\* C7: the registry lock is never held while an RPC round trip is in
\* progress, the "shutdown" request of remove_plugin and of the loop
\* thread's exit handling included.
C7_NoLockAcrossRpc ==
  lock # Free => calls[lock[2]][ShutdownCall(lock)].st # "pending"

(* ------------------------------ requests ------------------------------- *)
\* C8: with several async requests in flight against one plugin and the
\* replies arriving in any order, each completion is resolved at most once,
\* is resolved when and only when the call is no longer pending, and a reply
\* resolves it only when it carries the call's own correlation id.
C8_OwnReply ==
  \A p \in PluginIds : \A k \in 1 .. Len(calls[p]) :
    calls[p][k].kind = "async" =>
      /\ calls[p][k].n <= 1
      /\ calls[p][k].n = 1 <=> calls[p][k].st # "pending"
      /\ calls[p][k].st = "ok" => calls[p][k].got = calls[p][k].cid

\* two async requests were in flight and the reply to the second one has
\* arrived before the reply to the first
C8_Witness ==
  \E p \in PluginIds :
    /\ Len(calls[p]) >= 2
    /\ calls[p][1].kind = "async" /\ calls[p][1].st = "pending"
    /\ calls[p][2].kind = "async" /\ calls[p][2].st = "ok"
    /\ calls[p][2].got = calls[p][2].cid /\ calls[p][2].n = 1

\* call k of plugin p is an async or streaming request that is not resolved
Unresolved(p, k) ==
  /\ k \in 1 .. Len(calls[p])
  /\ calls[p][k].kind \in {"async", "stream"}
  /\ calls[p][k].st = "pending"

\* C9: when the transport loop of a plugin has terminated, every async and
\* every streaming request still pending on it is eventually resolved.
C9_ResolvedOnExit ==
  \A p \in PluginIds : \A k \in 1 .. MaxCalls :
    (LoopGone(p) /\ Unresolved(p, k)) ~> ~Unresolved(p, k)

\* call k of plugin p was issued by a caller and has not completed
InFlight(p, k) ==
  /\ k \in 1 .. Len(calls[p])
  /\ calls[p][k].owner = Caller
  /\ calls[p][k].st = "pending"

\* C10: a call that is in flight against a plugin while remove_plugin runs,
\* or when it has returned, eventually completes.
C10_CallsComplete ==
  \A p \in PluginIds : \A k \in 1 .. MaxCalls :
    ((lock = RemoveH(p) \/ removed[p] # "no") /\ InFlight(p, k))
      ~> ~InFlight(p, k)

\* the consumer of streaming call k of plugin p has dropped the stream
Dropped(p, k) ==
  /\ k \in 1 .. Len(calls[p])
  /\ calls[p][k].kind = "stream"
  /\ calls[p][k].rx = "dropped"

\* call k of plugin p is an async request that is not resolved
AsyncPending(p, k) ==
  /\ k \in 1 .. Len(calls[p])
  /\ calls[p][k].kind = "async"
  /\ calls[p][k].st = "pending"

\* C11: when the consumer of a streaming call has dropped the stream, the
\* loop thread does not become blocked in a send of that call, and every
\* async request in flight on the same or on another plugin completes.
C11_DropDoesNotBlock ==
  /\ [][\A p \in PluginIds :
         (hold[p] = NoHold /\ hold'[p] # NoHold) => ~Dropped(p, hold'[p][1])]_vars
  /\ (\E p \in PluginIds : \E k \in 1 .. MaxCalls : Dropped(p, k))
       ~> (\A q \in PluginIds : \A j \in 1 .. MaxCalls : ~AsyncPending(q, j))

\* a chunk of a dropped stream was discarded and an async request issued on
\* the same plugin after the streaming call has been answered
C11_Witness ==
  \E p \in PluginIds :
    /\ Len(calls[p]) >= 2
    /\ Dropped(p, 1) /\ calls[p][1].lost /\ calls[p][1].st = "pending"
    /\ calls[p][2].kind = "async" /\ calls[p][2].st = "ok"
    /\ hold[p] = NoHold

\* C12: a consumer that stops reading while it keeps the stream cannot block
\* the loop thread for good: whenever the loop thread waits in a send on a
\* full channel it eventually gets on, so that it processes the replies of
\* the other calls of the plugin.
C12_LoopNotBlocked ==
  \A p \in PluginIds : (hold[p] # NoHold) ~> (hold[p] = NoHold)

(* ----------------------------- termination ----------------------------- *)
Last(seq) == seq[Len(seq)]

\* the worker thread of p has run plugin_exit: it broadcasts nothing more
Exited(p) == tpc[p] \in {"exit_shutdown", "done"}

\* C13: when the process of a plugin has exited or its loop has hit a read or
\* framing error, without a removal by the manager, the last RunningState
\* broadcast for the id is UnexpectedStop{id} and the plugin is no longer in
\* the registry.
C13_UnexpectedStopIsLast ==
  \A p \in PluginIds :
    (Exited(p) /\ UnexpectedStop(p) \in Range(sent[p]))
      => (Last(sent[p]) = UnexpectedStop(p) /\ ~Registered(p))

\* C14: after remove_plugin(id) has taken a plugin out of the registry,
\* Stopped{id} is eventually broadcast, whatever the plugin process does
\* with the "shutdown" request.
C14_RemovedIsStopped ==
  \A p \in PluginIds : (lock = RemoveH(p)) ~> (Stopped(p) \in Range(sent[p]))

(* --------------------------- readiness gating -------------------------- *)
\* C15: an operation of the chat client that needs a ready plugin issues its
\* request only after its readiness wait has observed Running on the state
\* channel; the wait is never passed on Connecting, Connected, Stopped or
\* UnexpectedStop.
C15_IssuedWhenReady ==
  wait.st = "issued" => is_ready(wait.seen)

\* no plugin has become ready
NeverReady == \A p \in PluginIds : Running(p) \notin Range(sent[p])

\* C16: a readiness wait against a plugin that never becomes ready ends with
\* the timeout failure, and not before the 30 seconds have elapsed.
C16_TimeoutAtBound ==
  (NeverReady /\ wait.st \notin {"idle", "waiting"})
    => (wait.st = "timeout" /\ wait.t = ReadyTimeout)

(* ----------------------------- weak handles ---------------------------- *)
\* C17: after a plugin has been removed from the registry, the upgrade of a
\* weak handle obtained earlier fails: nothing but the registry keeps the
\* Plugin alive, in particular no call in flight.  (The time plugin_disconnect
\* spends in plugin.shutdown() under the lock is not counted.)
C17_RemovedHandleFails ==
  (ret.op = "upgrade" /\ ~Registered(ret.id) /\ lock = Free) => ret.r = "Dropped"

(* ------------------------------ siblings ------------------------------- *)
\* a step of the termination of the loop of plugin a: the failure is seen,
\* the pending calls are resolved, mainloop returns, the worker thread runs
\* its exit handling
LoopFails(a) ==
  \/ LoopEof(a) \/ LoopBadFrame(a) \/ LoopReturn(a)
  \/ \E cid \in DOMAIN pending[a] : LoopDrain(a, cid)
  \/ ThreadStopped(a) \/ plugin_exit(a) \/ plugin_exit_return(a)

\* C18: the termination of the loop of plugin a leaves the registry entry of
\* a sibling b, the states broadcast for b and the calls of b unchanged, and
\* the manager stays usable: the registry lock the exit handling of a takes
\* is released again.
C18_SiblingUntouched ==
  /\ [][\A a \in PluginIds : \A b \in PluginIds \ {a} :
         LoopFails(a) =>
           /\ Registered(b)' = Registered(b)
           /\ sent'[b] = sent[b]
           /\ calls'[b] = calls[b] /\ pending'[b] = pending[b]]_vars
  /\ \A a \in PluginIds : (lock = ExitH(a)) ~> (lock = Free)

(* ------------------------------- creation ------------------------------ *)
\* the worker thread of id could not spawn the plugin process
SpawnFailed(id) ==
  \/ tpc[id] = "connect_err"
  \/ tpc[id] = "done" /\ proc[id] = "none"

C20_AllocatesOnEveryCall ==
  [][\A out \in Outcomes :
       create_plugin(out) =>
         /\ counter' = counter + 1
         /\ allocated' = Append(allocated, counter)
         /\ counter \notin Range(allocated)
         /\ is_not_desktop(os) =>
              /\ ret'.r = "Unsupported"
              /\ UNCHANGED << tpc, proc, rs, sent, plugins >>]_vars

\* C20 as the code has it: on a desktop host every create_plugin call
\* allocates a fresh id at once; on a non-desktop host it fails with the
\* platform error without allocating an id, without spawning a process,
\* without broadcasting a state and without touching the registry.
C20_AllocatesOnDesktop ==
  [][\A out \in Outcomes :
       create_plugin(out) =>
         IF is_desktop(os)
         THEN /\ counter' = counter + 1
              /\ allocated' = Append(allocated, counter)
              /\ counter \notin Range(allocated)
         ELSE /\ ret'.r = "Unsupported"
              /\ UNCHANGED << counter, allocated, tpc, proc, rs, sent, plugins >>]_vars

\* create_plugin has failed with the platform error on a non-desktop host
C20_Witness ==
  /\ is_not_desktop(os)
  /\ ret.op = "create_plugin" /\ ret.r = "Unsupported"
  /\ counter = 0 /\ allocated = << >> /\ plugins = << >>

(* ---------------------------- method order ----------------------------- *)
\* C21: the first method written to the process of a plugin is "initialize":
\* no notification and no request with another name is written before it.
C21_InitializeFirst ==
  \A p \in PluginIds : \A i \in 1 .. Len(methods[p]) :
    methods[p][i] # "initialize"
      => \E j \in 1 .. (i - 1) : methods[p][j] = "initialize"

(* ------------------------------- removal ------------------------------- *)
\* C22: remove_plugin(id) takes the entry out of the registry and returns
\* success whether the "shutdown" call succeeds, fails or is never answered:
\* the entry is gone while the call is under way, and the call comes to its
\* end, so that remove_plugin returns Ok and the registry can be read again.
C22_RemovalNotBlocked ==
  /\ [](\A p \in PluginIds : lock = RemoveH(p) => ~Registered(p))
  /\ \A p \in PluginIds :
       (lock = RemoveH(p)) ~> (lock = Free /\ removed[p] # "no")

(* ------------------------------ predicates ----------------------------- *)
\* C23: RunningState::is_ready is true exactly when the state is Running{id}
\* and the host is a desktop platform; on another host it is false for every
\* state.
C23_ReadyOnDesktopOnly ==
  app.fn = "RunningState::is_ready"
    => (app.res <=> (app.arg.st = "Running" /\ is_desktop(os)))

(* --------------------------- re-initialisation ------------------------- *)
\* init_chat_plugin has returned Ok for plugin id, the plugin created last,
\* and the client has not destroyed it since
InitDone(id) ==
  /\ id = counter - 1
  /\ \E k \in InitCalls(id) : calls[id][k].st = "ok"
  /\ lock # RemoveH(id) /\ removed[id] = "no"

\* C24: after init_chat_plugin has returned Ok, also when it replaced an
\* earlier plugin, the state channel carries the id of the new plugin; a late
\* event of the loop thread of the replaced plugin does not make the channel
\* point at the old id again.
C24_ChannelCarriesNewId ==
  \A id \in PluginIds : InitDone(id) => plugin_id(rs) = id

(* ------------------------------- streams ------------------------------- *)
\* the chunks among the items a consumer has taken, or that wait in a channel
Chunks(items) == SelectSeq(items, LAMBDA x : x[1] = "Ok")

\* the consumer of streaming call k of plugin p has the stream and its
\* sender is gone: the remote has signalled the end, or the loop has ended
StreamOver(p, k) ==
  /\ k \in 1 .. Len(calls[p])
  /\ calls[p][k].kind = "stream"
  /\ ~calls[p][k].tx /\ calls[p][k].rx = "alive"

\* the consumer has seen the end of the stream
StreamEnded(p, k) == k \in 1 .. Len(calls[p]) /\ calls[p][k].rx = "ended"

\* C25: the consumer of a streaming call gets the chunks in the order the
\* loop thread received them, each chunk once and none left out; once the
\* remote has signalled the end of the stream every chunk has been or will
\* be delivered, and a consumer that reads on sees the end of the stream.
C25_StreamInOrder ==
  /\ [](\A p \in PluginIds : \A k \in 1 .. Len(calls[p]) :
          calls[p][k].kind = "stream" =>
            /\ \A i \in 1 .. Len(Chunks(calls[p][k].out)) :
                 calls[p][k].out[i] = OkItem(i)
            /\ calls[p][k].rx = "ended" =>
                 Len(Chunks(calls[p][k].out)) = calls[p][k].nsent)
  /\ \A p \in PluginIds : \A k \in 1 .. MaxCalls :
       StreamOver(p, k) ~> StreamEnded(p, k)

\* a stream of two chunks was ended by the remote and read to its end
C25_Witness ==
  \E p \in PluginIds : \E k \in 1 .. Len(calls[p]) :
    /\ calls[p][k].kind = "stream" /\ calls[p][k].st = "ok"
    /\ calls[p][k].rx = "ended" /\ calls[p][k].out = << OkItem(1), OkItem(2) >>

\* C26: for every streaming call, the number of chunks the loop thread has
\* pushed and the consumer has not taken never exceeds the capacity of the
\* channel, 100.
C26_ChannelBounded ==
  \A p \in PluginIds : \A k \in 1 .. Len(calls[p]) :
    calls[p][k].kind = "stream" => Len(calls[p][k].q) <= StreamCapacity

\* the channel was full, the loop thread waited with the next chunk, and
\* pushed it when the consumer had taken an item: the channel is full again
C26_Witness ==
  \E p \in PluginIds : \E k \in 1 .. Len(calls[p]) :
    /\ calls[p][k].kind = "stream"
    /\ Len(calls[p][k].q) = StreamCapacity
    /\ calls[p][k].nsent = StreamCapacity + 1
    /\ Len(calls[p][k].out) = 1
    /\ hold[p] = NoHold

(* ------------------------------ conversions ---------------------------- *)
\* every element of "data" has a "content" that is a string
WellFormed(json) ==
  /\ json.data = "array"
  /\ \A i \in 1 .. Len(json.items) : json.items[i].kind = "str"

\* C27: ChatRelatedQuestionsResponseParser fails with a parse error whenever
\* "data" is absent or no array or an element lacks a string "content"; on
\* success the result has one question per element of "data", in order, the
\* text of its "content".
C27_ParseFailsClosed ==
  app.fn \in {"ai_ops::parse_json", "chat_ops::parse_json"} =>
    IF WellFormed(app.arg)
    THEN /\ app.res.ok
         /\ app.res.v = [i \in 1 .. Len(app.arg.items) |-> app.arg.items[i].v]
    ELSE ~app.res.ok

\* C28: the conversion of a numeric code to a CompleteTextType maps 1..5 to
\* the five variants, so that a variant converted to its code and back is the
\* same variant, and maps every other code to ImproveWriting.
C28_CodeRoundTrip ==
  /\ app.fn \in {"as u8, From<u8>", "as u8, From<i8>"} =>
       /\ app.res = app.arg
       /\ discriminant(app.arg) \in 1 .. 5
  /\ app.fn \in {"From<u8>", "From<i8>"} =>
       IF app.arg \in 1 .. 5
       THEN discriminant(app.res) = app.arg
       ELSE app.res = "ImproveWriting"

\* the last variant, AskAI, was converted to its code and back
C28_Witness ==
  /\ app.fn = "as u8, From<i8>"
  /\ app.arg = "AskAI" /\ app.res = "AskAI"

(* ------------------------------- download ------------------------------ *)
\* the final path holds the downloaded file only after the rename of the
\* temporary file that holds every chunk, and a successful download leaves
\* the final file and no temporary file
RenamedWhenComplete ==
  /\ dl.final = "new" => (dl.res = "Ok" /\ dl.written = dl.total)
  /\ dl.final # "new" => dl.final = dl.final0
  /\ dl.res = "Ok" => (dl.final = "new" /\ dl.part = "absent")

\* the download has failed: nothing is left of the temporary file and the
\* final path is as it was
CancelledCleanly ==
  dl.res = "Err" /\ dl.part = "absent" /\ dl.final = dl.final0

\* C29: the final path is only ever created by the rename of the fully
\* written temporary file after the last chunk; on success the final file
\* exists and the temporary file does not; when the token was cancelled, the
\* download ends with an error, the temporary file deleted and the final path
\* untouched.
C29_AtomicDownload ==
  /\ RenamedWhenComplete
  /\ (dl.pc = "done" /\ is_cancelled) => CancelledCleanly

\* C30: download_plugin fails when the server reports no content length;
\* neither the temporary nor the final file is created and the progress
\* callback is not invoked.
C30_NoLengthFails ==
  (dl.status = "ok" /\ dl.len = NoLen) =>
    /\ dl.pc = "done" /\ dl.res = "Err"
    /\ ~dl.created /\ dl.part = "absent"
    /\ dl.final = dl.final0
    /\ dl.progress = 0

\* a download with a progress callback has failed on a response without a
\* content length
C30_Witness ==
  /\ dl.pc = "done" /\ dl.res = "Err" /\ dl.status = "ok" /\ dl.len = NoLen
  /\ dl.callback /\ dl.tok = "live" /\ dl.final = "absent"

(* ---------------------------- readiness waits -------------------------- *)
\* C31: in the readiness wait of LocalChatLLMChat (llm_chat.rs), when the state
\* becomes Ready at any moment between the start of the wait and the timeout,
\* also between the is_loading check and the subscription, the wait returns
\* Ok and does not run into the timeout.
C31_NoLostWakeup ==
  (llm.client = "LocalChatLLMChat" /\ llm.wpc = "timeout") => ~llm.ready

\* C32: an operation of LocalEmbedding that starts its readiness wait while
\* the state is Loading does not time out once init_embedding_plugin has set
\* the state to Ready.
C32_EmbeddingWaitCompletes ==
  (llm.client = "LocalEmbedding" /\ llm.wpc = "timeout") => ~llm.ready

(* ------------------------- plugins of a client ------------------------- *)
\* C33: after any sequence of init_chat_plugin and destroy_chat_plugin calls
\* of a LocalChatLLMChat, sequential or concurrent, the registry holds at most
\* one chat plugin created by it: every plugin it created earlier has been
\* removed.
C33_AtMostOneChatPlugin == ChatIdle => Len(plugins) <= 1

\* C34: after any sequence of init_embedding_plugin calls of a LocalEmbedding
\* the registry holds at most one embedding plugin created by it: a
\* re-initialisation removes the plugin created before, or creates none when
\* the configuration is unchanged.
C34_AtMostOneEmbeddingPlugin == EmbeddingIdle => Len(plugins) <= 1

(* ------------------------------ connection ----------------------------- *)
\* C35: the worker thread inserts the Plugin into the registry before it
\* broadcasts Connected{id} and before create_plugin is released: when
\* Connected{id} is broadcast the registry contains id, and create_plugin
\* returns Ok(id) for a process that was spawned only after the insertion and
\* the broadcast.
C35_RegisteredBeforeConnected ==
  /\ [][\A p \in PluginIds :
         (Connected(p) \notin Range(sent[p]) /\ Connected(p) \in Range(sent'[p]))
           => (Registered(p) /\ Registered(p)' /\ cwait[p])]_vars
  /\ [][\A p \in PluginIds :
         (create_plugin_return(p) /\ proc[p] # "none")
           => ( /\ Connected(p) \in Range(sent[p])
                /\ tpc[p] \notin {"spawned", "connecting", "registered", "connected"} )]_vars

\* create_plugin has returned the id of a second plugin of the client, which
\* is registered and announced as Connected, after the first was removed
C35_Witness ==
  /\ ret = [op |-> "create_plugin", id |-> 1, r |-> "Ok"]
  /\ Registered(1) /\ rs = Connected(1)
  /\ removed[0] = "known"

\* C36: when the plugin process fails to spawn, no RunningState value is
\* broadcast at all: the channel keeps the value it had, and subscribers see
\* neither Connecting nor a terminal state for the failed id.
C36_SpawnFailureSilent ==
  /\ [](\A p \in PluginIds : SpawnFailed(p) => sent[p] = << >>)
  /\ [][\A p \in PluginIds :
         (ThreadSpawnFailed(p) \/ ThreadConnectErr(p)) => rs' = rs]_vars

\* the process of the second plugin of a client could not be spawned and
\* create_plugin has returned: the channel still carries Stopped of the first
C36_Witness ==
  /\ ret = [op |-> "create_plugin", id |-> 1, r |-> "Ok"]
  /\ SpawnFailed(1) /\ tpc[1] = "done"
  /\ rs = Stopped(0)

(* ----------------------------- exit handling --------------------------- *)
\* C37: the exit handling of the loop thread always terminates and releases
\* the registry lock: when the loop has ended and the plugin is still
\* registered, plugin_exit removes it, and its "shutdown" request to the
\* ended loop returns instead of waiting forever for a reply.
C37_ExitHandlingEnds ==
  \A p \in PluginIds :
    (tpc[p] = "exit_shutdown") ~> (tpc[p] = "done" /\ lock # ExitH(p))

(* ------------------------ chunks that do not decode -------------------- *)
\* the items of stream call c in the order the consumer meets them: those it
\* has taken, then those in the channel
StreamItems(c) == c.out \o c.q

\* C38: in a streaming call, a chunk whose payload fails to decode is
\* delivered to the consumer as an Err item at its position in the stream; it
\* neither ends the stream nor suppresses the chunks that follow it.  The step
\* that receives the n-th chunk with such a payload appends the error of
\* chunk n to the channel and leaves the sender, the state of the call and
\* its pending record as they are; and at any time the consumer of a stream
\* it has not dropped meets one item per chunk received, the i-th item being
\* that of chunk i, followed at most by the error of the loop's termination.
C38_UndecodableChunkIsAnItem ==
  /\ [][\A p \in PluginIds : \A cid \in DOMAIN pending[p] :
          LoopChunkJson(p, cid, "other") =>
            LET k == pending[p][cid]
            IN /\ calls'[p][k].nsent = calls[p][k].nsent + 1
               /\ StreamItems(calls'[p][k]) =
                    Append(StreamItems(calls[p][k]), ErrItem(calls'[p][k].nsent))
               /\ calls'[p][k].tx = calls[p][k].tx
               /\ calls'[p][k].st = calls[p][k].st
               /\ calls'[p][k].rx = calls[p][k].rx
               /\ pending' = pending /\ tpc' = tpc]_vars
  /\ [](\A p \in PluginIds : \A k \in 1 .. Len(calls[p]) :
          (calls[p][k].kind = "stream" /\ calls[p][k].rx # "dropped" /\ hold[p] = NoHold) =>
            LET c == calls[p][k]
                s == StreamItems(c)
            IN /\ Len(s) \in {c.nsent, c.nsent + 1}
               /\ \A i \in 1 .. c.nsent : s[i] \in {OkItem(i), ErrItem(i)}
               /\ Len(s) = c.nsent + 1 => (s[Len(s)] = ErrItem(0) /\ ~c.tx))

\* the first chunk did not decode, the second did, and the consumer has taken
\* the error, then the value, then seen the end of the stream the process ended
C38_Witness ==
  \E p \in PluginIds : \E k \in 1 .. Len(calls[p]) :
    /\ calls[p][k].kind = "stream" /\ calls[p][k].rx = "ended" /\ calls[p][k].st = "ok"
    /\ calls[p][k].out = << ErrItem(1), OkItem(2) >>

=============================================================================
